---- MODULE Spec2Model ----
(***************************************************************************)
(* miniclaw agent runtime: the tool-calling loop (internal/agent/loop.go), *)
(* the session store (internal/agent/session.go), the memory consolidator  *)
(* (internal/agent/memory.go), the job scheduler (internal/cron/service.go)*)
(* with its callers and firings, the heartbeat                             *)
(* (internal/heartbeat/heartbeat.go) and the tools that route by recipient *)
(* (internal/tools).                                                       *)
(***************************************************************************)
EXTENDS Integers, Sequences, FiniteSets, TLC

VARIABLES
    cfg,        \* config.ProviderConfig: [MaxIterations, MemoryWindow]
    backend,    \* the chat backend's behaviour for one runLoop: [prefix, tail]
    rl,         \* the frame of one runLoop invocation
    files,      \* the sessions directory: path -> persisted session file
    pm,         \* the ProcessMessage invocations: call -> frame
    sess,       \* the Session object each invocation got from SessionManager.Get
    bg,         \* the background goroutine each invocation launched, if any
    memoryDoc,  \* MEMORY.md
    historyLog, \* HISTORY.md, one entry per line
    store,      \* the last SessionManager call made directly: [op, key, session]
    cron,       \* the cron Service, its scheduler and its job file
    sched,      \* the goroutines around the cron Service: its mutex, the
                \* callers, the firings, the agent invocations and the sends
    hb,         \* the heartbeat Service, its instructions document and its tick
    route       \* Loop.currentChatID and the ProcessMessage calls that route by it

sessionVars == <<files, pm, sess, bg, memoryDoc, historyLog>>
triggerVars == <<sched, hb, route>>
vars == <<cfg, backend, rl, files, pm, sess, bg, memoryDoc, historyLog, store, cron,
          sched, hb, route>>

-----------------------------------------------------------------------------
(* Bounds of the model *)

\* scripted backend replies before the backend settles into its tail behaviour
MaxPrefix == 2

\* ProcessMessage invocations in one behaviour
MaxCalls == 2

\* messages of a session handed to Consolidate on its own
MaxMessages == 4

\* configured memory windows tried with Consolidate on its own
MaxWindow == 5

\* the clock readings of the cron Service
MaxClock == 3

\* the Start calls on the cron Service
MaxStarts == 2

\* the entries the cron scheduler is given, by Start and by Add
MaxEntries == 3

\* goroutines calling the cron Service at once
MaxCallers == 2

\* firings of cron jobs in flight at once, and firings in all
MaxFlights == 1
MaxFirings == 1

\* ticks of the heartbeat timer
MaxTicks == 2

\* messages sent by the send_message tool
MaxSends == 2

(* Program constants *)

DefaultMaxIter == 20

DefaultMemWindow == 50

-----------------------------------------------------------------------------
(* provider.Message / provider.ContentBlock *)

\* Message.Content is interface{}: a string or a []ContentBlock
StrContent(s) == [kind |-> "string", str |-> s, blocks |-> <<>>]
BlockContent(bs) == [kind |-> "blocks", str |-> "", blocks |-> bs]

Message(role, content) == [Role |-> role, Content |-> content]

ZeroBlock ==
    [Type |-> "", Text |-> "", ID |-> "", Name |-> "", Input |-> "",
     ToolUseID |-> "", Content |-> "", IsError |-> FALSE]

TextBlock(t) == [ZeroBlock EXCEPT !.Type = "text", !.Text = t]

ToolUse(id, name, input) ==
    [ZeroBlock EXCEPT !.Type = "tool_use", !.ID = id, !.Name = name, !.Input = input]

ChatResponse(content, stop) == [Content |-> content, StopReason |-> stop]

NoResponse == ChatResponse(<<>>, "")

-----------------------------------------------------------------------------
(* The tool registry *)

\* registerBaseTools, SetSendFunc, SetCronService
RegisteredTools ==
    {"read_file", "write_file", "edit_file", "list_dir", "exec", "web_fetch",
     "send_message", "cron_add", "cron_list", "cron_remove"}

\* Tool.Execute: a tool is a function of its input; it fails on input "bad"
ToolExecute(name, input) ==
    IF input = "bad"
    THEN [result |-> "", err |-> "boom"]
    ELSE [result |-> "out", err |-> ""]

\* Registry.Execute
RegistryExecute(name, input) ==
    IF name \notin RegisteredTools
    THEN [result |-> "", err |-> "unknown tool: " \o name]
    ELSE ToolExecute(name, input)

-----------------------------------------------------------------------------
(* runLoop *)

Fallback == "I've completed processing but have no response to give."

\* the element of a one-element set; it binds a value that is computed once
The(S) == CHOOSE x \in S : TRUE

\* runLoop lines 152-162: the last text block's text and the tool_use blocks
RECURSIVE PartitionFrom(_, _, _)
PartitionFrom(content, k, acc) ==
    IF k > Len(content) THEN acc
    ELSE LET block == content[k] IN
         The({PartitionFrom(content, k + 1, next) : next \in
            {CASE block.Type = "text" -> [acc EXCEPT !.textContent = block.Text]
               [] block.Type = "tool_use" ->
                     [acc EXCEPT !.toolCalls = Append(@, block)]
               [] OTHER -> acc}})

Partition(content) ==
    PartitionFrom(content, 1, [textContent |-> "", toolCalls |-> <<>>])

\* mutant: the loop ends only on an end_turn response without tool calls
IsTerminalOnlyBoth(resp, toolCalls) ==
    resp.StopReason = "end_turn" /\ Len(toolCalls) = 0

\* runLoop lines 164: the response ends the loop
IsTerminal(resp, toolCalls) ==
    resp.StopReason = "end_turn" \/ Len(toolCalls) = 0

\* mutant: a failed tool's result is not flagged
ToolResultUnflagged(tc) ==
    LET r == RegistryExecute(tc.Name, tc.Input) IN
    [ZeroBlock EXCEPT
        !.Type = "tool_result",
        !.ToolUseID = tc.ID,
        !.Content = IF r.err # "" THEN "Error: " \o r.err ELSE r.result]

\* runLoop lines 182-195: one tool call and its tool_result block
ToolResult(tc) ==
    LET r == RegistryExecute(tc.Name, tc.Input) IN
    [ZeroBlock EXCEPT
        !.Type = "tool_result",
        !.ToolUseID = tc.ID,
        !.Content = IF r.err # "" THEN "Error: " \o r.err ELSE r.result,
        !.IsError = (r.err # "")]

\* mutant: a tool is recorded only once it has run without an error
RECURSIVE ExecToolsFromSkipsFailed(_, _, _)
ExecToolsFromSkipsFailed(toolCalls, k, acc) ==
    IF k > Len(toolCalls) THEN acc
    ELSE The({ExecToolsFromSkipsFailed(toolCalls, k + 1, next) : next \in
            {[toolsUsed |-> IF ToolResult(tc).IsError THEN acc.toolsUsed
                            ELSE Append(acc.toolsUsed, tc.Name),
              execLog |-> acc.execLog \o <<<<"start", tc.ID>>, <<"end", tc.ID>>>>,
              toolResults |-> Append(acc.toolResults, ToolResult(tc))] :
             tc \in {toolCalls[k]}}})

\* runLoop lines 173-196: the tools run one after another, in request order
RECURSIVE ExecToolsFrom(_, _, _)
ExecToolsFrom(toolCalls, k, acc) ==
    IF k > Len(toolCalls) THEN acc
    ELSE The({ExecToolsFrom(toolCalls, k + 1, next) : next \in
            {[toolsUsed |-> Append(acc.toolsUsed, tc.Name),
              execLog |-> acc.execLog \o <<<<"start", tc.ID>>, <<"end", tc.ID>>>>,
              toolResults |-> Append(acc.toolResults, ToolResult(tc))] :
             tc \in {toolCalls[k]}}})

\* mutant: the tools run in reverse request order
ExecToolsReversed(toolCalls, toolsUsed, execLog) ==
    ExecToolsFrom([k \in DOMAIN toolCalls |-> toolCalls[Len(toolCalls) + 1 - k]], 1,
        [toolsUsed |-> toolsUsed, execLog |-> execLog, toolResults |-> <<>>])

ExecTools(toolCalls, toolsUsed, execLog) ==
    ExecToolsFrom(toolCalls, 1,
        [toolsUsed |-> toolsUsed, execLog |-> execLog, toolResults |-> <<>>])

\* mutant: no default when the configured cap is 0
EffectiveMaxIterNoDefault(c) == c.MaxIterations

\* runLoop lines 139-144
EffectiveMaxIter(c) ==
    IF c.MaxIterations = 0 THEN DefaultMaxIter ELSE c.MaxIterations

EnterFrame(c, messages) ==
    [pc |-> "iter",
     maxIter |-> EffectiveMaxIter(c),
     messages |-> messages,
     toolsUsed |-> <<>>,
     i |-> 0,
     calls |-> 0,              \* backend calls made so far
     lastSent |-> <<>>,        \* the conversation of the latest backend call
     lastResp |-> NoResponse,  \* the latest backend response
     execLog |-> <<>>,         \* tool executions, as start/end events
     content |-> "",
     err |-> FALSE]

\* mutant: a backend failure ends the loop with an empty answer and no error
LoopIterSwallowsError(f, b) ==
    LET called == [f EXCEPT !.calls = @ + 1, !.lastSent = f.messages] IN
    IF b.err
    THEN [called EXCEPT !.pc = "ret", !.content = ""]
    ELSE LET part == Partition(b.resp.Content)
             got == [called EXCEPT !.lastResp = b.resp]
         IN  IF IsTerminal(b.resp, part.toolCalls)
             THEN [got EXCEPT !.pc = "ret", !.content = part.textContent]
             ELSE LET ex == ExecTools(part.toolCalls, f.toolsUsed, f.execLog) IN
                  [got EXCEPT
                     !.messages = f.messages \o
                        <<Message("assistant", BlockContent(b.resp.Content)),
                          Message("user", BlockContent(ex.toolResults))>>,
                     !.toolsUsed = ex.toolsUsed,
                     !.execLog = ex.execLog,
                     !.i = @ + 1]

\* one pass of the body of `for range maxIter`, lines 147-201, with the
\* backend answering b = [err, resp]
LoopIter(f, b) ==
    LET called == [f EXCEPT !.calls = @ + 1, !.lastSent = f.messages] IN
    IF b.err
    THEN [called EXCEPT !.pc = "ret", !.content = "", !.err = TRUE]
    ELSE The({
         LET got == [called EXCEPT !.lastResp = b.resp]
         IN  IF IsTerminal(b.resp, part.toolCalls)
             THEN [got EXCEPT !.pc = "ret", !.content = part.textContent]
             ELSE The({
                  [got EXCEPT
                     !.messages = f.messages \o
                        <<Message("assistant", BlockContent(b.resp.Content)),
                          Message("user", BlockContent(ex.toolResults))>>,
                     !.toolsUsed = ex.toolsUsed,
                     !.execLog = ex.execLog,
                     !.i = @ + 1] :
                  ex \in {ExecTools(part.toolCalls, f.toolsUsed, f.execLog)}}) :
         part \in {Partition(b.resp.Content)}})

\* runLoop line 204: the cap is exhausted
LoopFallback(f) == [f EXCEPT !.pc = "ret", !.content = Fallback]

-----------------------------------------------------------------------------
(* The chat backend, an external collaborator: it answers the k-th call of a
   runLoop with prefix[k], and every later call with its tail behaviour. *)

Reply(resp) == [err |-> FALSE, resp |-> resp]
ChatError == [err |-> TRUE, resp |-> NoResponse]

RespFinal == ChatResponse(<<TextBlock("done")>>, "end_turn")
RespTool == ChatResponse(<<ToolUse("tu1", "exec", "good")>>, "tool_use")
RespToolFail ==
    ChatResponse(<<TextBlock("try"), ToolUse("tu1", "exec", "bad")>>, "tool_use")
RespUnknown ==
    ChatResponse(<<ToolUse("tu1", "no_such_tool", "good")>>, "tool_use")
RespTwo ==
    ChatResponse(<<ToolUse("tu1", "read_file", "good"), TextBlock("mid"),
                   ToolUse("tu2", "no_such_tool", "good")>>, "tool_use")
\* a call that works, a call that fails and a call of a tool nobody registered
RespThree ==
    ChatResponse(<<ToolUse("tu1", "read_file", "good"),
                   ToolUse("tu2", "exec", "bad"),
                   ToolUse("tu3", "no_such_tool", "good")>>, "tool_use")
RespToolEnd ==
    ChatResponse(<<TextBlock("early"), ToolUse("tu1", "exec", "good")>>, "end_turn")
RespCut == ChatResponse(<<TextBlock("a"), TextBlock("cut")>>, "max_tokens")

Behaviours ==
    {ChatError} \cup
    {Reply(r) : r \in {RespFinal, RespTool, RespToolFail, RespUnknown, RespTwo,
                       RespToolEnd, RespCut}}

Tails == {ChatError, Reply(RespFinal), Reply(RespTool)}

Prefixes == UNION {[1..n -> Behaviours] : n \in 0..MaxPrefix}

Scripts == [prefix : Prefixes, tail : Tails]

BehaviourAt(script, k) ==
    IF k <= Len(script.prefix) THEN script.prefix[k] ELSE script.tail

-----------------------------------------------------------------------------
(* Texts. A text is a string; Chars gives the characters of the texts the
   model uses, for the operations that work on characters. *)

Chars(s) ==
    CASE s = "hi" -> <<"h", "i">>
      [] s = "/new" -> <<"/", "n", "e", "w">>
      [] s = " /New " -> <<" ", "/", "N", "e", "w", " ">>
      [] s = "/help" -> <<"/", "h", "e", "l", "p">>
      [] s = "/HELP" -> <<"/", "H", "E", "L", "P">>
      [] s = "tg:1" -> <<"t", "g", ":", "1">>
      [] s = "tg_1" -> <<"t", "g", "_", "1">>
      [] s = "hb:1" -> <<"h", "b", ":", "1">>
      [] s = "" -> <<>>
      [] s = " " -> <<" ">>
      [] s = "ok" -> <<"o", "k">>
      [] s = "HEARTBEAT_OK" ->
            <<"H", "E", "A", "R", "T", "B", "E", "A", "T", "_", "O", "K">>
      [] s = " HEARTBEAT_OK\n" ->
            <<" ", "H", "E", "A", "R", "T", "B", "E", "A", "T", "_", "O", "K", "\n">>
      [] s = "heartbeat_ok" ->
            <<"h", "e", "a", "r", "t", "b", "e", "a", "t", "_", "o", "k">>
      [] s = "Heartbeat_OK\n" ->
            <<"H", "e", "a", "r", "t", "b", "e", "a", "t", "_", "O", "K", "\n">>
      [] s = "HEARTBEAT_OK ok" ->
            <<"H", "E", "A", "R", "T", "B", "E", "A", "T", "_", "O", "K", " ",
              "o", "k">>

LowerChar(c) ==
    CASE c = "N" -> "n" [] c = "H" -> "h" [] c = "E" -> "e"
      [] c = "L" -> "l" [] c = "P" -> "p" [] c = "A" -> "a"
      [] c = "R" -> "r" [] c = "T" -> "t" [] c = "B" -> "b"
      [] c = "O" -> "o" [] c = "K" -> "k" [] OTHER -> c

\* strings.ToLower
ToLower(cs) == [k \in DOMAIN cs |-> LowerChar(cs[k])]

IsSpace(c) == c \in {" ", "\t", "\n", "\r"}

\* strings.TrimSpace
RECURSIVE TrimLeft(_)
TrimLeft(cs) ==
    IF cs # <<>> /\ IsSpace(Head(cs)) THEN TrimLeft(Tail(cs)) ELSE cs

RECURSIVE TrimRight(_)
TrimRight(cs) ==
    IF cs # <<>> /\ IsSpace(cs[Len(cs)])
    THEN TrimRight(SubSeq(cs, 1, Len(cs) - 1))
    ELSE cs

TrimSpace(cs) == TrimRight(TrimLeft(cs))

\* ProcessMessage line 92: the switch on the trimmed, lower-cased text
Command(userMsg) ==
    LET t == TrimSpace(ToLower(Chars(userMsg))) IN
    CASE t = <<"/", "n", "e", "w">> -> "/new"
      [] t = <<"/", "h", "e", "l", "p">> -> "/help"
      [] OTHER -> ""

NewReply == "New session started. Memory consolidation in progress."
HelpReply == "miniclaw commands"

-----------------------------------------------------------------------------
(* Session, SessionMessage *)

Session(key, messages, lastConsolidated) ==
    [Key |-> key, Messages |-> messages, LastConsolidated |-> lastConsolidated]

\* mutant: the assistant's message is not appended
AddUserOnly(s, role, content, tools, now) ==
    IF role = "assistant" THEN s
    ELSE [s EXCEPT !.Messages = Append(@,
            [Role |-> role, Content |-> content, ToolsUsed |-> tools,
             Timestamp |-> now])]

\* Session.Add; the timestamp is the time of the call that adds the message
Add(s, role, content, tools, now) ==
    [s EXCEPT !.Messages = Append(@,
        [Role |-> role, Content |-> content, ToolsUsed |-> tools,
         Timestamp |-> now])]

\* mutant: Clear forgets the watermark
ClearKeepsWatermark(s) == [s EXCEPT !.Messages = <<>>]

\* Session.Clear
Clear(s) == [s EXCEPT !.Messages = <<>>, !.LastConsolidated = 0]

\* Session.RecentMessages
RecentMessages(s, n) ==
    LET msgs == IF Len(s.Messages) > n
                THEN SubSeq(s.Messages, Len(s.Messages) - n + 1, Len(s.Messages))
                ELSE s.Messages
    IN  [k \in DOMAIN msgs |-> Message(msgs[k].Role, StrContent(msgs[k].Content))]

\* BuildMessages
BuildMessages(history, currentContent) ==
    Append(history, Message("user", StrContent(currentContent)))

-----------------------------------------------------------------------------
(* SessionManager: one JSON file per key *)

SessionKeys == {"tg:1"}

\* SessionManager.path: ":", "/" and "\" become "_"
Path(key) ==
    LET cs == Chars(key) IN
    [k \in DOMAIN cs |-> IF cs[k] \in {":", "/", "\\"} THEN "_" ELSE cs[k]]

Paths == {Path(k) : k \in SessionKeys}

NoFile == [exists |-> FALSE, key |-> "", messages |-> <<>>, lastConsolidated |-> 0]

\* mutant: the tool names are not written
MarshalMessageWithoutTools(m) ==
    [role |-> m.Role, content |-> m.Content, timestamp |-> m.Timestamp]

\* the JSON object of a SessionMessage: toolsUsed is omitempty
MarshalMessage(m) ==
    IF m.ToolsUsed = <<>>
    THEN [role |-> m.Role, content |-> m.Content, timestamp |-> m.Timestamp]
    ELSE [role |-> m.Role, content |-> m.Content, toolsUsed |-> m.ToolsUsed,
          timestamp |-> m.Timestamp]

\* json.Unmarshal of that object into a SessionMessage
UnmarshalMessage(j) ==
    [Role |-> j.role, Content |-> j.content,
     ToolsUsed |-> IF "toolsUsed" \in DOMAIN j THEN j.toolsUsed ELSE <<>>,
     Timestamp |-> j.timestamp]

\* json.MarshalIndent of a Session
Marshal(s) ==
    [exists |-> TRUE, key |-> s.Key,
     messages |-> [k \in DOMAIN s.Messages |-> MarshalMessage(s.Messages[k])],
     lastConsolidated |-> s.LastConsolidated]

\* SessionManager.Get: the file's fields unmarshalled over Session{Key: key}
Get(dir, key) ==
    IF dir[Path(key)].exists
    THEN Session(dir[Path(key)].key,
                 [k \in DOMAIN dir[Path(key)].messages |->
                     UnmarshalMessage(dir[Path(key)].messages[k])],
                 dir[Path(key)].lastConsolidated)
    ELSE Session(key, <<>>, 0)

\* SessionManager.Save
Save(dir, s) == [dir EXCEPT ![Path(s.Key)] = Marshal(s)]

-----------------------------------------------------------------------------
(* MemoryStore.Consolidate *)

\* Loop.memWindow
MemWindow(c) ==
    IF c.MemoryWindow > 0 THEN c.MemoryWindow ELSE DefaultMemWindow

\* mutant: nothing is kept back, the range runs to the last message
ConsolidateRangeKeepsNone(s, memWindow) ==
    LET end == Len(s.Messages)
    IN  IF end <= s.LastConsolidated THEN [some |-> FALSE, end |-> 0]
        ELSE [some |-> TRUE, end |-> end]

\* Consolidate lines 65-77: the range to summarise, or none
ConsolidateRange(s, memWindow) ==
    LET keepCount == memWindow \div 2
        end == Len(s.Messages) - keepCount
    IN  IF Len(s.Messages) <= keepCount THEN [some |-> FALSE, end |-> 0]
        ELSE IF end <= s.LastConsolidated THEN [some |-> FALSE, end |-> 0]
        ELSE IF Len(SubSeq(s.Messages, s.LastConsolidated + 1, end)) = 0
             THEN [some |-> FALSE, end |-> 0]
             ELSE [some |-> TRUE, end |-> end]

\* Consolidate line 74: the messages to summarise
OldMsgs(s, end) == SubSeq(s.Messages, s.LastConsolidated + 1, end)

\* strings.ToUpper of a role
UpperRole(role) ==
    CASE role = "user" -> "USER"
      [] role = "assistant" -> "ASSISTANT"
      [] OTHER -> role

\* Consolidate lines 79-88: one line per message, with its time, its role in
\* capitals, its tools and its content
Conversation(oldMsgs) ==
    [k \in DOMAIN oldMsgs |->
        [Timestamp |-> oldMsgs[k].Timestamp, Role |-> UpperRole(oldMsgs[k].Role),
         Tools |-> oldMsgs[k].ToolsUsed, Content |-> oldMsgs[k].Content]]

\* The reply text of the summariser, as tokens: a fence ```, a newline, a
\* blank, a word, or a JSON value
Fence == [t |-> "fence", shape |-> "", h |-> "", m |-> ""]
Newline == [t |-> "nl", shape |-> "", h |-> "", m |-> ""]
Blank == [t |-> "sp", shape |-> "", h |-> "", m |-> ""]
Word == [t |-> "word", shape |-> "", h |-> "", m |-> ""]
\* {"history_entry": h, "memory_update": m}; an absent key is ""
JsonObject(h, m) == [t |-> "json", shape |-> "object", h |-> h, m |-> m]
JsonNull == [t |-> "json", shape |-> "null", h |-> "", m |-> ""]
JsonArray == [t |-> "json", shape |-> "array", h |-> "", m |-> ""]

IsBlankToken(tok) == tok.t \in {"sp", "nl"}

RECURSIVE TrimTokensLeft(_)
TrimTokensLeft(text) ==
    IF text # <<>> /\ IsBlankToken(Head(text))
    THEN TrimTokensLeft(Tail(text)) ELSE text

RECURSIVE TrimTokensRight(_)
TrimTokensRight(text) ==
    IF text # <<>> /\ IsBlankToken(text[Len(text)])
    THEN TrimTokensRight(SubSeq(text, 1, Len(text) - 1)) ELSE text

TrimTokens(text) == TrimTokensRight(TrimTokensLeft(text))

\* Consolidate lines 122-128: the text of the first text block
FirstText(content) ==
    LET texts == SelectSeq(content, LAMBDA b : b.Type = "text") IN
    IF texts = <<>> THEN <<>> ELSE texts[1].Text

\* Consolidate lines 136-143: strip a markdown fence
StripFence(text) ==
    IF text # <<>> /\ text[1].t = "fence"
    THEN LET nls == {k \in DOMAIN text : text[k].t = "nl"}
             first == CHOOSE k \in nls : \A j \in nls : k <= j
             rest == IF nls # {} THEN SubSeq(text, first + 1, Len(text)) ELSE text
             cut == IF rest # <<>> /\ rest[Len(rest)].t = "fence"
                    THEN SubSeq(rest, 1, Len(rest) - 1) ELSE rest
         IN  TrimTokens(cut)
    ELSE text

\* mutant: any JSON value is accepted
UnmarshalAnyJson(text) ==
    LET body == TrimTokens(text) IN
    IF Len(body) = 1 /\ body[1].t = "json"
    THEN [ok |-> TRUE, HistoryEntry |-> body[1].h, MemoryUpdate |-> body[1].m]
    ELSE [ok |-> FALSE, HistoryEntry |-> "", MemoryUpdate |-> ""]

\* json.Unmarshal into struct{HistoryEntry, MemoryUpdate}
Unmarshal(text) ==
    LET body == TrimTokens(text) IN
    IF Len(body) = 1 /\ body[1].t = "json" /\ body[1].shape \in {"object", "null"}
    THEN [ok |-> TRUE, HistoryEntry |-> body[1].h, MemoryUpdate |-> body[1].m]
    ELSE [ok |-> FALSE, HistoryEntry |-> "", MemoryUpdate |-> ""]

\* Consolidate lines 114-156: the parsed reply, or a failure
ParseReply(b) ==
    IF b.err THEN [ok |-> FALSE, HistoryEntry |-> "", MemoryUpdate |-> ""]
    ELSE LET text == TrimTokens(FirstText(b.resp.Content)) IN
         IF text = <<>> THEN [ok |-> FALSE, HistoryEntry |-> "", MemoryUpdate |-> ""]
         ELSE Unmarshal(StripFence(text))

\* mutant: the memory document is overwritten with whatever came back
ApplyReplyWritesAlways(st, s, end, currentMemory, parsed) ==
    IF ~parsed.ok THEN [memory |-> st.memory, history |-> st.history, session |-> s]
    ELSE [history |-> IF parsed.HistoryEntry # ""
                      THEN Append(st.history, parsed.HistoryEntry)
                      ELSE st.history,
          memory |-> parsed.MemoryUpdate,
          session |-> [s EXCEPT !.LastConsolidated = end]]

\* Consolidate lines 157-163 on a store st = [memory, history] and session s
ApplyReply(st, s, end, currentMemory, parsed) ==
    IF ~parsed.ok THEN [memory |-> st.memory, history |-> st.history, session |-> s]
    ELSE [history |-> IF parsed.HistoryEntry # ""
                      THEN Append(st.history, parsed.HistoryEntry)
                      ELSE st.history,
          memory |-> IF parsed.MemoryUpdate # "" /\ parsed.MemoryUpdate # currentMemory
                     THEN parsed.MemoryUpdate
                     ELSE st.memory,
          session |-> [s EXCEPT !.LastConsolidated = end]]

\* the summariser's replies
SummaryText(text) == Reply(ChatResponse(<<TextBlock(text)>>, "end_turn"))

ReplyNoText == Reply(ChatResponse(<<>>, "end_turn"))
ReplyBlank == SummaryText(<<Blank, Newline>>)
ReplyJunk == SummaryText(<<Word>>)
ReplyArray == SummaryText(<<JsonArray>>)
ReplyOneLineFence == SummaryText(<<Fence, JsonObject("h1", "m1"), Fence>>)
ReplyJson == SummaryText(<<JsonObject("h1", "m1")>>)
ReplyFenced ==
    SummaryText(<<Fence, Word, Newline, JsonObject("", "m2"), Newline, Fence>>)
ReplyNull == SummaryText(<<JsonNull>>)

SummaryReplies ==
    {ChatError, ReplyNoText, ReplyBlank, ReplyJunk, ReplyArray, ReplyOneLineFence,
     ReplyJson, ReplyFenced, ReplyNull}

-----------------------------------------------------------------------------
(* SessionManager used directly: the last call and what it returned *)

IdleStore == [op |-> "none", key |-> "", session |-> Session("", <<>>, 0)]

-----------------------------------------------------------------------------
(* cron.Service: jobs, their schedule handles, the scheduler and the job file *)

\* the schedule expressions given to Add
Schedules == {"@daily", "0 0 9 * * *", "0 9 * * *", "bogus"}

\* the whitespace-separated fields of a schedule expression
ScheduleFields(schedule) ==
    CASE schedule = "@daily" -> <<"@daily">>
      [] schedule = "0 0 9 * * *" -> <<"0", "0", "9", "*", "*", "*">>
      [] schedule = "0 9 * * *" -> <<"0", "9", "*", "*", "*">>
      [] schedule = "bogus" -> <<"bogus">>
      [] OTHER -> <<>>

\* the parser of robfig.New(robfig.WithSeconds()): a descriptor, or exactly
\* six fields (second minute hour day-of-month month day-of-week)
ParseSchedule(schedule) ==
    LET fs == ScheduleFields(schedule) IN
    IF Len(fs) = 0 THEN "empty spec string"
    ELSE IF fs[1] = "@daily" THEN ""
    ELSE IF Len(fs) # 6 THEN "expected exactly 6 fields"
    ELSE IF \A k \in 1..6 : fs[k] \in {"*", "0", "9"} THEN ""
    ELSE "failed to parse"

Job(id, name, schedule, message, chatID, enabled, created) ==
    [ID |-> id, Name |-> name, Schedule |-> schedule, Message |-> message,
     ChatID |-> chatID, Enabled |-> enabled, Created |-> created]

NoJobFile == [exists |-> FALSE, jobs |-> {}]

\* no call made yet
NoReturn ==
    [op |-> "none", err |-> "", id |-> 0, name |-> "", schedule |-> "",
     message |-> "", chatID |-> "", jobs |-> {}, text |-> {},
     slice |-> <<>>]

\* a function with one more, or one replaced, entry
Put(f, k, v) == [x \in DOMAIN f \cup {k} |-> IF x = k THEN v ELSE f[x]]

\* a function without the entry of k
Delete(f, k) == [x \in DOMAIN f \ {k} |-> f[x]]

\* the values of a map
Values(f) == {f[x] : x \in DOMAIN f}

\* Service.load: the jobs of the file, keyed by ID
LoadJobs(file) ==
    IF file.exists
    THEN [id \in {j.ID : j \in file.jobs} |->
             CHOOSE j \in file.jobs : j.ID = id]
    ELSE <<>>

\* cron.New: the maps, a stopped scheduler without entries, and load
NewService(file, now) ==
    [jobs |-> LoadJobs(file),      \* s.jobs
     entryIDs |-> <<>>,            \* s.entryIDs
     entries |-> {},               \* the scheduler's entries: the entry id
                                   \* and the job its closure captured
     next |-> 0,                   \* the scheduler's last entry id
     running |-> FALSE,            \* the scheduler runs
     starts |-> 0,                 \* calls of Start
     file |-> file,                \* the job file at s.path
     clock |-> now,                \* time.Now().UnixNano()
     ret |-> NoReturn]             \* the last call and what it returned

\* Service.schedule, lines 155-178: AddFunc, then the handle is recorded
Schedule(st, job) ==
    LET err == ParseSchedule(job.Schedule) IN
    IF err # ""
    THEN [st EXCEPT !.ret = [@ EXCEPT !.err = err]]
    ELSE [st EXCEPT
            !.next = st.next + 1,
            !.entries = @ \cup {[id |-> st.next + 1, job |-> job.ID,
                                  chatID |-> job.ChatID,
                                  message |-> job.Message]},
            !.entryIDs = Put(@, job.ID, st.next + 1),
            !.ret = [@ EXCEPT !.err = ""]]

\* Service.save: the jobs marshalled into the file
SaveJobs(st) == [st EXCEPT !.file = [exists |-> TRUE, jobs |-> Values(st.jobs)]]

\* Service.Start lines 61-65: schedule every enabled job, in some map order
RECURSIVE ScheduleAll(_, _)
ScheduleAll(st, ids) ==
    IF ids = {} THEN st
    ELSE LET id == CHOOSE x \in ids : TRUE
             after == IF st.jobs[id].Enabled THEN Schedule(st, st.jobs[id]) ELSE st
         IN  ScheduleAll(after, ids \ {id})

\* Service.Start
StartService(st) ==
    [ScheduleAll(st, DOMAIN st.jobs) EXCEPT
        !.running = TRUE,
        !.starts = st.starts + 1,
        !.ret = [NoReturn EXCEPT !.op = "start"]]

\* mutant: the job is stored and saved before it is scheduled
AddJobStoresFirst(st, name, schedule, message, chatID, now) ==
    LET job == Job(now, name, schedule, message, chatID, TRUE, now)
        call == [NoReturn EXCEPT !.op = "add", !.name = name,
                    !.schedule = schedule, !.message = message,
                    !.chatID = chatID, !.id = job.ID]
    IN  Schedule(SaveJobs([st EXCEPT !.clock = now, !.ret = call,
                                     !.jobs = Put(@, job.ID, job)]), job)

\* Service.Add at time now
AddJob(st, name, schedule, message, chatID, now) ==
    LET job == Job(now, name, schedule, message, chatID, TRUE, now)
        call == [NoReturn EXCEPT !.op = "add", !.name = name,
                    !.schedule = schedule, !.message = message,
                    !.chatID = chatID]
        tried == Schedule([st EXCEPT !.clock = now, !.ret = call], job)
    IN  IF tried.ret.err # ""
        THEN tried
        ELSE SaveJobs([tried EXCEPT !.jobs = Put(@, job.ID, job),
                                    !.ret = [@ EXCEPT !.id = job.ID]])

\* mutant: Remove of an unknown id still rewrites the job file
RemoveJobSavesAlways(st, id) ==
    LET call == [NoReturn EXCEPT !.op = "remove", !.id = id] IN
    IF id \notin DOMAIN st.jobs
    THEN SaveJobs([st EXCEPT !.ret = [call EXCEPT !.err = "not found"]])
    ELSE SaveJobs([st EXCEPT
            !.entries = {e \in @ : e.job # id},
            !.entryIDs = Delete(@, id),
            !.jobs = Delete(@, id),
            !.ret = call])

\* Service.Remove
RemoveJob(st, id) ==
    LET call == [NoReturn EXCEPT !.op = "remove", !.id = id] IN
    IF id \notin DOMAIN st.jobs
    THEN [st EXCEPT !.ret = [call EXCEPT !.err = "not found"]]
    ELSE LET disarmed ==
                 IF id \in DOMAIN st.entryIDs
                 THEN [st EXCEPT
                         !.entries = {e \in @ : e.id # st.entryIDs[id]},
                         !.entryIDs = Delete(@, id)]
                 ELSE st
         IN  SaveJobs([disarmed EXCEPT !.jobs = Delete(@, id), !.ret = call])

\* Service.List: the jobs of the map, in map order
List(st) == Values(st.jobs)

\* Service.List lines 123-127: the slice List may return. `range s.jobs`
\* yields the entries of the map in an order Go leaves unspecified, and the
\* slice is returned as filled
ListSlices(st) ==
    {slice \in [1..Cardinality(DOMAIN st.jobs) -> Values(st.jobs)] :
        \A i, j \in DOMAIN slice : i # j => slice[i].ID # slice[j].ID}

\* Service.ListFormatted: one line per job, in map order
ListFormatted(st) ==
    {[ID |-> j.ID, Name |-> j.Name, Schedule |-> j.Schedule,
      status |-> IF j.Enabled THEN "enabled" ELSE "disabled",
      Message |-> j.Message] : j \in Values(st.jobs)}

\* what the job file holds when the program starts: nothing, or the job an
\* earlier run added and saved
StoredJob == Job(1, "daily", "@daily", "ping", "123", TRUE, 1)

StoredJobFiles == {NoJobFile, [exists |-> TRUE, jobs |-> {StoredJob}]}

IdleCron == NewService(NoJobFile, 0)

-----------------------------------------------------------------------------
(* The goroutines around the cron Service: the callers of Start, Stop, Add,
   Remove and List, the Service's mutex s.mu, and the firings the scheduler
   starts, each in a goroutine of its own *)

Callers == 1..MaxCallers

Flights == 1..MaxFlights

\* the goroutine of flight f, as a holder of the mutex
FiringId(f) == MaxCallers + f

\* no call in progress
IdleCaller ==
    [pc |-> "idle", op |-> "", name |-> "", schedule |-> "", id |-> 0,
     flight |-> 0]   \* the firing in flight when the call took the mutex

\* no firing in this goroutine
IdleFiring ==
    [pc |-> "idle", job |-> 0, chatID |-> "", message |-> "",
     result |-> "", err |-> ""]

\* cron.New as the gateway calls it: bot.Send is the send function
IdleSched ==
    [mu |-> 0,                                   \* s.mu: its holder, or 0
     th |-> [t \in Callers |-> IdleCaller],
     fire |-> [f \in Flights |-> IdleFiring],
     agentCalls |-> <<>>,                        \* calls of s.agentFn
     sent |-> <<>>,                              \* calls of s.send
     send |-> TRUE]                              \* s.send # nil

\* the firing in flight, if any: the number of its agent call
InFlight(s) ==
    IF \E f \in Flights : s.fire[f].pc = "agent" THEN Len(s.agentCalls) ELSE 0

\* mutant: the call goes on without taking the mutex
LockNotTaken(s, t, call) ==
    {[s EXCEPT !.th[t] = [call EXCEPT !.pc = "body", !.flight = InFlight(s)]]}

\* s.mu.Lock() of Start, Add, Remove and List: the call goes on once the
\* mutex is free; the result is the set of states it goes on in
Lock(s, t, call) ==
    IF s.mu = 0
    THEN {[s EXCEPT !.mu = t,
                    !.th[t] = [call EXCEPT !.pc = "body", !.flight = InFlight(s)]]}
    ELSE {}

\* the deferred s.mu.Unlock(), and the return
Unlock(s, t) ==
    [s EXCEPT !.mu = IF @ = t THEN 0 ELSE @, !.th[t] = IdleCaller]

\* mutant: the firing runs under the Service's mutex
FiringUnderLock(s, f, e) ==
    IF s.mu = 0
    THEN {[s EXCEPT
             !.mu = FiringId(f),
             !.fire[f] = [IdleFiring EXCEPT !.pc = "agent", !.job = e.job,
                             !.chatID = e.chatID, !.message = e.message],
             !.agentCalls = Append(@, [chatID |-> e.chatID,
                                       message |-> e.message])]}
    ELSE {}

\* the closure of schedule, lines 156-161: the firing of entry e calls
\* s.agentFn with the chat id and the message of the job it captured
Firing(s, f, e) ==
    {[s EXCEPT
        !.fire[f] = [IdleFiring EXCEPT !.pc = "agent", !.job = e.job,
                        !.chatID = e.chatID, !.message = e.message],
        !.agentCalls = Append(@, [chatID |-> e.chatID, message |-> e.message])]}

\* what s.agentFn may return: a reply, an empty reply, an error of the
\* backend, the 5-minute deadline
AgentOutcomes ==
    {[result |-> "pong", err |-> ""],
     [result |-> "", err |-> ""],
     [result |-> "", err |-> "boom"],
     [result |-> "", err |-> "context deadline exceeded"]}

ErrorNotice(err) == "Cron job error: " \o err

\* mutant: the reply is sent also when it is empty
DeliveredAlways(send, fr) ==
    IF fr.err # ""
    THEN IF send THEN <<[chatID |-> fr.chatID, text |-> ErrorNotice(fr.err)]>>
                 ELSE <<>>
    ELSE IF send THEN <<[chatID |-> fr.chatID, text |-> fr.result]>>
    ELSE <<>>

\* the closure of schedule, lines 162-171: the calls of s.send it makes
Delivered(send, fr) ==
    IF fr.err # ""
    THEN IF send THEN <<[chatID |-> fr.chatID, text |-> ErrorNotice(fr.err)]>>
                 ELSE <<>>
    ELSE IF send /\ fr.result # ""
         THEN <<[chatID |-> fr.chatID, text |-> fr.result]>>
    ELSE <<>>

-----------------------------------------------------------------------------
(* heartbeat.Service: the instructions document HEARTBEAT.md, the tick, the
   agent invocation and the send function *)

heartbeatOK == "HEARTBEAT_OK"

\* strings.Split(cs, "\n"): the lines of a text, at least one
RECURSIVE SplitFrom(_, _, _)
SplitFrom(cs, line, acc) ==
    IF cs = <<>> THEN Append(acc, line)
    ELSE IF Head(cs) = "\n" THEN SplitFrom(Tail(cs), <<>>, Append(acc, line))
    ELSE SplitFrom(Tail(cs), Append(line, Head(cs)), acc)

SplitLines(cs) == SplitFrom(cs, <<>>, <<>>)

\* strings.Join(lines, "\n")
RECURSIVE JoinLines(_)
JoinLines(lines) ==
    IF lines = <<>> THEN <<>>
    ELSE IF Len(lines) = 1 THEN lines[1]
    ELSE lines[1] \o <<"\n">> \o JoinLines(Tail(lines))

\* strings.HasPrefix(cs, "#")
HasHashPrefix(cs) == cs # <<>> /\ Head(cs) = "#"

\* readHeartbeatFile lines 103-108: the lines that are neither blank nor
\* comments, untrimmed
RECURSIVE KeptLines(_)
KeptLines(lines) ==
    IF lines = <<>> THEN <<>>
    ELSE LET trimmed == TrimSpace(Head(lines)) IN
         IF trimmed # <<>> /\ ~HasHashPrefix(trimmed)
         THEN <<Head(lines)>> \o KeptLines(Tail(lines))
         ELSE KeptLines(Tail(lines))

\* a document: whether the file can be read, and its characters
NoDocument == [exists |-> FALSE, data |-> <<>>]

Document(data) == [exists |-> TRUE, data |-> data]

\* mutant: comment lines count as instructions
readHeartbeatFileKeepsComments(doc) ==
    IF ~doc.exists THEN <<>> ELSE TrimSpace(doc.data)

\* Service.readHeartbeatFile
readHeartbeatFile(doc) ==
    IF ~doc.exists THEN <<>>
    ELSE TrimSpace(JoinLines(KeptLines(SplitLines(TrimSpace(doc.data)))))

\* tick lines 66-70: the session key of the heartbeat
HeartbeatSessionKey(chatID) ==
    IF chatID # "" THEN "telegram_" \o chatID ELSE "heartbeat:main"

\* tick line 82: the reply means there is nothing to report
NothingToReport(result) ==
    IF TrimSpace(Chars(result)) = Chars(heartbeatOK) THEN TRUE ELSE result = ""

\* mutant: a reply that begins with the token counts as the token
HeartbeatDeliveredUnlessPrefixed(send, chatID, result, err) ==
    IF err # "" THEN <<>>
    ELSE IF result = "" THEN <<>>
    ELSE IF LET t == TrimSpace(Chars(result)) IN
            Len(t) >= Len(Chars(heartbeatOK))
            /\ SubSeq(t, 1, Len(Chars(heartbeatOK))) = Chars(heartbeatOK)
         THEN <<>>
    ELSE IF send /\ chatID # "" THEN <<[chatID |-> chatID, text |-> result]>>
    ELSE <<>>

\* tick lines 76-91: the calls of s.send a tick makes once the agent returned
HeartbeatDelivered(send, chatID, result, err) ==
    IF err # "" THEN <<>>
    ELSE IF NothingToReport(result) THEN <<>>
    ELSE IF send /\ chatID # "" THEN <<[chatID |-> chatID, text |-> result]>>
    ELSE <<>>

\* heartbeat.New as the gateway calls it: bot.Send is the send function
NewHeartbeat(doc, chatID) ==
    [doc |-> doc,              \* HEARTBEAT.md in the workspace
     chatID |-> chatID,        \* cfg.Heartbeat.ChatID
     send |-> TRUE,            \* s.send # nil
     pc |-> "idle",            \* tick: idle, agent (s.agent called), got
     content |-> <<>>,         \* tick's content
     result |-> "",            \* tick's result
     err |-> "",               \* tick's err
     ticks |-> 0,              \* ticks taken from the ticker
     agentCalls |-> <<>>,      \* calls of s.agent
     sent |-> <<>>,            \* calls of s.send
     run |-> "loop",           \* Run: loop (in its for loop), returned
     ctxDone |-> FALSE,        \* Run's ctx is cancelled
     returns |-> 0]            \* returns of s.agent

IdleHeartbeat == NewHeartbeat(NoDocument, "")

\* mutant: the loop starts each tick in a goroutine and goes back to its
\* select at once
AtSelectWhileTicking(h) == h.run = "loop"

\* Run lines 47-54: the loop is at its select; `s.tick(ctx)` is an ordinary
\* call, so the loop is not there while a tick runs
AtSelect(h) == h.run = "loop" /\ h.pc = "idle"

-----------------------------------------------------------------------------
(* Loop.currentChatID, the tools that route by it, and the ProcessMessage
   calls that set it *)

\* no ProcessMessage call
IdleRouted ==
    [pc |-> "idle", chatID |-> "",
     routed |-> {}]   \* the chat ids the call's tools took from currentChatID

\* SendMessageTool.Execute lines 167-173: the chat id the message goes to,
\* given the chat_id argument and the value currentChatID points to
SendMessageChat(explicit, current) ==
    LET chatID == IF explicit = "" THEN current ELSE explicit IN
    IF chatID = ""
    THEN [chatID |-> "", err |-> "no chat_id available"]
    ELSE [chatID |-> chatID, err |-> ""]

\* CronAddTool.Execute lines 58-61: the chat id of the job
CronAddChat(current) == current

\* NewLoop, SetSendFunc, SetCronService
IdleRoute ==
    [currentChatID |-> "",                       \* l.currentChatID
     call |-> [p \in 1..MaxCalls |-> IdleRouted],
     sent |-> <<>>]                              \* calls of l.sendFn

-----------------------------------------------------------------------------
(* Frames of ProcessMessage and of the goroutine it launches *)

Calls == 1..MaxCalls

IdleScript == [prefix |-> <<>>, tail |-> ChatError]

IdleCall ==
    [pc |-> "idle", key |-> "", userMsg |-> "", loaded |-> 0, memWindow |-> 0,
     script |-> IdleScript,   \* how the backend will answer this call's runLoop
     content |-> "", toolsUsed |-> <<>>, err |-> FALSE, reply |-> "",
     chats |-> 0,
     sent |-> <<>>]           \* the conversation of the call's first backend call

\* a call that has returned: its locals are gone
ReturnedCall(err, reply, chats) ==
    [IdleCall EXCEPT !.pc = "done", !.err = err, !.reply = reply, !.chats = chats]

NoSession == Session("", <<>>, 0)

NoGoroutine ==
    [pc |-> "none", kind |-> "", snap |-> NoSession, memWindow |-> 0,
     end |-> 0, currentMemory |-> "",
     conversation |-> <<>>,   \* the lines Consolidate asks to be summarised
     covered |-> <<>>]        \* the range its history-log entry summarises

\* an exchange persisted by an earlier run of the program
StoredExchange ==
    <<[Role |-> "user", Content |-> "hi", ToolsUsed |-> <<>>, Timestamp |-> 0],
      [Role |-> "assistant", Content |-> "done", ToolsUsed |-> <<>>,
       Timestamp |-> 0]>>

\* what the sessions directory may hold when the program starts: no file, or
\* the file a ProcessMessage of an earlier run saved
StoredFiles ==
    {NoFile} \cup
    {Marshal(Session(k, StoredExchange, 0)) : k \in SessionKeys}

InitSessions ==
    /\ files \in [Paths -> StoredFiles]
    /\ pm = [p \in Calls |-> IdleCall]
    /\ sess = [p \in Calls |-> NoSession]
    /\ bg = [p \in Calls |-> NoGoroutine]
    /\ memoryDoc = ""
    /\ historyLog = <<>>
    /\ store = IdleStore
    /\ sched = IdleSched
    /\ hb = IdleHeartbeat
    /\ route = IdleRoute
    /\ cron = IdleCron

-----------------------------------------------------------------------------
(* Specification of one runLoop invocation *)

LoopConfigs == [MaxIterations : 0..3, MemoryWindow : {0}]

LoopConversations ==
    {<<Message("user", StrContent("hi"))>>,
     <<Message("user", StrContent("q")), Message("assistant", StrContent("a")),
       Message("user", StrContent("hi"))>>}

IdleFrame(messages) == [EnterFrame([MaxIterations |-> 0], messages) EXCEPT
                            !.pc = "entry", !.maxIter = 0]

InitLoop ==
    /\ cfg \in LoopConfigs
    /\ backend \in Scripts
    /\ rl \in {IdleFrame(m) : m \in LoopConversations}
    /\ InitSessions
    /\ files = [f \in Paths |-> NoFile]

LoopEnter ==
    /\ rl.pc = "entry"
    /\ rl' = EnterFrame(cfg, rl.messages)
    /\ UNCHANGED <<triggerVars, store, cron, cfg, backend, sessionVars>>

LoopIterate ==
    /\ rl.pc = "iter"
    /\ rl.i < rl.maxIter
    /\ rl' = LoopIter(rl, BehaviourAt(backend, rl.calls + 1))
    /\ UNCHANGED <<triggerVars, store, cron, cfg, backend, sessionVars>>

LoopExhaust ==
    /\ rl.pc = "iter"
    /\ rl.i >= rl.maxIter
    /\ rl' = LoopFallback(rl)
    /\ UNCHANGED <<triggerVars, store, cron, cfg, backend, sessionVars>>

NextLoop == LoopEnter \/ LoopIterate \/ LoopExhaust

\* runLoop as ProcessMessage calls it: from its entry to its return
RECURSIVE RunFrom(_, _)
RunFrom(f, script) ==
    IF f.pc = "ret" THEN f
    ELSE IF f.i >= f.maxIter THEN LoopFallback(f)
    ELSE The({RunFrom(g, script) :
                 g \in {LoopIter(f, b) : b \in {BehaviourAt(script, f.calls + 1)}}})

RunLoop(c, messages, script) == RunFrom(EnterFrame(c, messages), script)

SpecLoop == InitLoop /\ [][NextLoop]_vars

SpecLoopFair == SpecLoop /\ WF_vars(NextLoop)

-----------------------------------------------------------------------------
(* Properties of runLoop *)

\* the tool_use blocks of a response, in order
ToolUses(content) == SelectSeq(content, LAMBDA b : b.Type = "tool_use")

\* the text of the last text block of a response, "" when it has none
LastText(content) ==
    LET texts == SelectSeq(content, LAMBDA b : b.Type = "text") IN
    IF texts = <<>> THEN "" ELSE texts[Len(texts)].Text

\* the backend answers every call with a tool invocation and never ends the turn
IsToolInvocation(b) ==
    /\ ~b.err
    /\ b.resp.StopReason # "end_turn"
    /\ ToolUses(b.resp.Content) # <<>>

AlwaysToolBackend ==
    \A k \in 1..(Len(backend.prefix) + 1) : IsToolInvocation(BehaviourAt(backend, k))

ConfiguredCap == IF cfg.MaxIterations = 0 THEN 20 ELSE cfg.MaxIterations

\* C3: with a backend that always answers with a tool invocation, runLoop
\* makes exactly the configured number of backend calls (20 when the
\* configured value is 0), then returns the fallback text without an error,
\* and it does return.
C3_CapThenFallback ==
    /\ [](AlwaysToolBackend => rl.calls <= ConfiguredCap)
    /\ []((AlwaysToolBackend /\ rl.pc = "ret") =>
            /\ rl.calls = ConfiguredCap
            /\ rl.content = Fallback
            /\ ~rl.err)
    /\ (AlwaysToolBackend => <>(rl.pc = "ret"))

C3_Witness ==
    /\ AlwaysToolBackend
    /\ cfg.MaxIterations = 0
    /\ rl.pc = "ret"
    /\ rl.calls = 20
    /\ rl.content = Fallback

\* a step of runLoop that calls the backend and gets a response
GotResponse == rl'.calls = rl.calls + 1 /\ ~rl'.err

\* a step of runLoop that is a non-terminal iteration
NonTerminalIteration == rl.pc = "iter" /\ rl'.i = rl.i + 1

FailingCall(tc) == tc.Name \notin RegisteredTools \/ tc.Input = "bad"

FailureText(tc) ==
    IF tc.Name \notin RegisteredTools
    THEN "Error: unknown tool: " \o tc.Name
    ELSE "Error: boom"

LastMessage(messages) == messages[Len(messages)]

\* the conversation ends with a user turn of tool results, one of them an error
EndsWithToolError(messages) ==
    /\ messages # <<>>
    /\ LastMessage(messages).Role = "user"
    /\ \E k \in DOMAIN LastMessage(messages).Content.blocks :
          LastMessage(messages).Content.blocks[k].IsError

IsPlainText(b) ==
    /\ ~b.err
    /\ ToolUses(b.resp.Content) = <<>>
    /\ b.resp.Content # <<>>

\* C4: a failing or unregistered tool does not abort the loop: its invocation
\* gets a tool-result entry flagged isError whose text is the error message,
\* the next backend call carries the conversation including that entry, and a
\* plain-text reply to it ends the loop with that text and no error.
C4_ToolErrorStep ==
    /\ NonTerminalIteration =>
          LET calls == ToolUses(rl'.lastResp.Content)
              results == LastMessage(rl'.messages).Content.blocks
          IN  /\ rl'.pc = "iter"
              /\ ~rl'.err
              /\ Len(results) = Len(calls)
              /\ \A k \in DOMAIN calls :
                    FailingCall(calls[k]) =>
                       /\ results[k].Type = "tool_result"
                       /\ results[k].ToolUseID = calls[k].ID
                       /\ results[k].IsError
                       /\ results[k].Content = FailureText(calls[k])
    /\ (rl'.calls = rl.calls + 1) => rl'.lastSent = rl.messages
    /\ ( /\ rl.pc = "iter"
         /\ rl.i < rl.maxIter
         /\ EndsWithToolError(rl.messages)
         /\ IsPlainText(BehaviourAt(backend, rl.calls + 1)) ) =>
          /\ rl'.pc = "ret"
          /\ ~rl'.err
          /\ rl'.content = LastText(BehaviourAt(backend, rl.calls + 1).resp.Content)
          /\ EndsWithToolError(rl'.lastSent)

C4_ToolErrorContinues == [][C4_ToolErrorStep]_vars

C4_Witness ==
    /\ rl.pc = "ret"
    /\ ~rl.err
    /\ rl.content = "done"
    /\ rl.calls = 2
    /\ EndsWithToolError(rl.lastSent)
    /\ \E k \in DOMAIN LastMessage(rl.lastSent).Content.blocks :
          LastMessage(rl.lastSent).Content.blocks[k].Content =
             "Error: unknown tool: no_such_tool"

\* C6: a response ends the loop, with its text as the answer, exactly when
\* its stop indicator is end_turn or it has no tool invocation; such a
\* response runs no tool and appends nothing, every other response leads to
\* a next iteration.
C6_TerminalStep ==
    GotResponse =>
       LET r == rl'.lastResp
           terminal == r.StopReason = "end_turn" \/ ToolUses(r.Content) = <<>>
       IN  /\ terminal =>
                /\ rl'.pc = "ret"
                /\ rl'.content = LastText(r.Content)
                /\ rl'.messages = rl.messages
                /\ rl'.execLog = rl.execLog
                /\ rl'.toolsUsed = rl.toolsUsed
           /\ ~terminal =>
                /\ rl'.pc = "iter"
                /\ rl'.i = rl.i + 1
                /\ rl'.content = ""

C6_TerminalExactly == [][C6_TerminalStep]_vars

C6_Witness ==
    /\ rl.pc = "ret"
    /\ rl.lastResp = RespToolEnd
    /\ rl.content = "early"
    /\ rl.execLog = <<>>
    /\ rl.calls = 1

RECURSIVE SequentialRuns(_)
SequentialRuns(calls) ==
    IF calls = <<>> THEN <<>>
    ELSE <<<<"start", Head(calls).ID>>, <<"end", Head(calls).ID>>>>
            \o SequentialRuns(Tail(calls))

\* C7: a non-terminal iteration appends the assistant's raw response and then
\* one user turn with one tool-result entry per requested invocation, in
\* request order and carrying the invocation's id; the tools run in that
\* order, each ending before the next starts.
C7_IterationStep ==
    NonTerminalIteration =>
       LET calls == ToolUses(rl'.lastResp.Content)
           n == Len(rl.messages)
       IN  /\ Len(rl'.messages) = n + 2
           /\ SubSeq(rl'.messages, 1, n) = rl.messages
           /\ rl'.messages[n + 1].Role = "assistant"
           /\ rl'.messages[n + 1].Content.kind = "blocks"
           /\ rl'.messages[n + 1].Content.blocks = rl'.lastResp.Content
           /\ rl'.messages[n + 2].Role = "user"
           /\ rl'.messages[n + 2].Content.kind = "blocks"
           /\ LET results == rl'.messages[n + 2].Content.blocks IN
              /\ Len(results) = Len(calls)
              /\ \A k \in DOMAIN calls :
                    /\ results[k].Type = "tool_result"
                    /\ results[k].ToolUseID = calls[k].ID
           /\ rl'.execLog = rl.execLog \o SequentialRuns(calls)

C7_ResultsInOrder == [][C7_IterationStep]_vars

C7_Witness ==
    /\ rl.lastResp = RespTwo
    /\ rl.i = 1
    /\ rl.execLog = <<<<"start", "tu1">>, <<"end", "tu1">>,
                      <<"start", "tu2">>, <<"end", "tu2">>>>
    /\ Len(LastMessage(rl.messages).Content.blocks) = 2

-----------------------------------------------------------------------------
(* Specification of ProcessMessage and the background consolidation *)

SessionConfigs == [MaxIterations : {2}, MemoryWindow : 0..2]

UserTexts == {"hi", "/new", " /New ", "/HELP"}

\* the backends a ProcessMessage call may meet
SessionScripts ==
    {[prefix |-> <<>>, tail |-> Reply(RespFinal)],
     [prefix |-> <<Reply(RespThree)>>, tail |-> Reply(RespFinal)],
     [prefix |-> <<>>, tail |-> ChatError],
     [prefix |-> <<Reply(RespTool)>>, tail |-> ChatError]}

Init ==
    /\ cfg \in SessionConfigs
    /\ backend = IdleScript
    /\ rl = IdleFrame(<<>>)
    /\ InitSessions

\* ProcessMessage lines 89-90
PMGet(p, key, text) ==
    /\ pm[p].pc = "idle"
    /\ IF p = 1 THEN TRUE ELSE pm[p - 1].pc # "idle"
    /\ sess' = [sess EXCEPT ![p] = Get(files, key)]
    /\ pm' = [pm EXCEPT ![p] = [@ EXCEPT !.pc = "switch", !.key = key,
                !.userMsg = text,
                !.loaded = Len(Get(files, key).Messages)]]
    /\ UNCHANGED <<triggerVars, store, cron, cfg, backend, rl, files, bg, memoryDoc, historyLog>>

\* ProcessMessage lines 93-100
PMNew(p) ==
    /\ pm[p].pc = "switch"
    /\ Command(pm[p].userMsg) = "/new"
    /\ sess' = [sess EXCEPT ![p] = Clear(sess[p])]
    /\ files' = Save(files, Clear(sess[p]))
    /\ bg' = [bg EXCEPT ![p] = [NoGoroutine EXCEPT !.pc = "consolidate",
                !.kind = "new", !.snap = sess[p], !.memWindow = MemWindow(cfg)]]
    /\ pm' = [pm EXCEPT ![p] = ReturnedCall(FALSE, NewReply, 0)]
    /\ UNCHANGED <<triggerVars, store, cron, cfg, backend, rl, memoryDoc, historyLog>>

\* ProcessMessage lines 101-102
PMHelp(p) ==
    /\ pm[p].pc = "switch"
    /\ Command(pm[p].userMsg) = "/help"
    /\ pm' = [pm EXCEPT ![p] = ReturnedCall(FALSE, HelpReply, 0)]
    /\ UNCHANGED <<triggerVars, store, cron, cfg, backend, rl, files, sess, bg, memoryDoc, historyLog>>

\* ProcessMessage line 106: the session is over the memory window
OverWindow(s, memWindow) == Len(s.Messages) > memWindow

\* ProcessMessage lines 105-113
PMWindow(p) ==
    /\ pm[p].pc = "switch"
    /\ Command(pm[p].userMsg) = ""
    /\ \E script \in SessionScripts :
          pm' = [pm EXCEPT ![p] = [@ EXCEPT !.pc = "run", !.script = script,
                                      !.memWindow = MemWindow(cfg)]]
    /\ bg' = IF OverWindow(sess[p], MemWindow(cfg))
             THEN [bg EXCEPT ![p] = [NoGoroutine EXCEPT !.pc = "spawned",
                      !.kind = "window", !.memWindow = MemWindow(cfg)]]
             ELSE bg
    /\ UNCHANGED <<triggerVars, store, cron, cfg, backend, rl, files, sess, memoryDoc, historyLog>>

\* ProcessMessage lines 115-122
PMRunLoop(p) ==
    /\ pm[p].pc = "run"
    /\ UNCHANGED <<triggerVars, store, cron, cfg, backend, rl, files, sess, bg, memoryDoc, historyLog>>
    /\ \E history \in {RecentMessages(sess[p], pm[p].memWindow)} :
       \E messages \in {BuildMessages(history, pm[p].userMsg)} :
       \E f \in {RunLoop(cfg, messages, pm[p].script)} :
          pm' = [pm EXCEPT ![p] =
              IF f.err
              THEN ReturnedCall(TRUE, "", f.calls)
              ELSE [@ EXCEPT !.pc = "addUser", !.content = f.content,
                       !.script = IdleScript, !.sent = messages,
                       !.toolsUsed = f.toolsUsed, !.chats = f.calls]]

\* ProcessMessage line 124
PMAddUser(p) ==
    /\ pm[p].pc = "addUser"
    /\ sess' = [sess EXCEPT ![p] = Add(@, "user", pm[p].userMsg, <<>>, p)]
    /\ pm' = [pm EXCEPT ![p].pc = "addAssistant"]
    /\ UNCHANGED <<triggerVars, store, cron, cfg, backend, rl, files, bg, memoryDoc, historyLog>>

\* ProcessMessage line 125
PMAddAssistant(p) ==
    /\ pm[p].pc = "addAssistant"
    /\ sess' = [sess EXCEPT ![p] =
                  Add(@, "assistant", pm[p].content, pm[p].toolsUsed, p)]
    /\ pm' = [pm EXCEPT ![p].pc = "save"]
    /\ UNCHANGED <<triggerVars, store, cron, cfg, backend, rl, files, bg, memoryDoc, historyLog>>

\* ProcessMessage lines 126-128
\* mutant: the call waits for its consolidation goroutine before it returns
PMSaveAfterConsolidation(p) ==
    /\ pm[p].pc = "save"
    /\ bg[p].pc \in {"none", "done"}
    /\ files' = Save(files, sess[p])
    /\ pm' = [pm EXCEPT ![p] = ReturnedCall(FALSE, pm[p].content, pm[p].chats)]
    /\ UNCHANGED <<triggerVars, store, cron, cfg, backend, rl, sess, bg, memoryDoc, historyLog>>

PMSave(p) ==
    /\ pm[p].pc = "save"
    /\ files' = Save(files, sess[p])
    /\ pm' = [pm EXCEPT ![p] = ReturnedCall(FALSE, pm[p].content, pm[p].chats)]
    /\ UNCHANGED <<triggerVars, store, cron, cfg, backend, rl, sess, bg, memoryDoc, historyLog>>

\* a goroutine that has ended: its locals are gone
EndedGoroutine(g) ==
    [NoGoroutine EXCEPT !.pc = "done", !.kind = g.kind, !.covered = g.covered]

\* Consolidate has returned to the goroutine g that called it
Returned(g) ==
    IF g.kind = "window"
    THEN [g EXCEPT !.pc = "writeback", !.end = 0, !.currentMemory = "",
                   !.conversation = <<>>]
    ELSE EndedGoroutine(g)

\* ProcessMessage line 108: the goroutine copies the session
BgSnapshot(p) ==
    /\ bg[p].pc = "spawned"
    /\ bg' = [bg EXCEPT ![p] = [@ EXCEPT !.pc = "consolidate", !.snap = sess[p]]]
    /\ UNCHANGED <<triggerVars, store, cron, cfg, backend, rl, files, pm, sess, memoryDoc, historyLog>>

\* Consolidate lines 65-112: the range, the current memory, the prompt
BgConsolidate(p) ==
    /\ bg[p].pc = "consolidate"
    /\ LET r == ConsolidateRange(bg[p].snap, bg[p].memWindow) IN
       bg' = [bg EXCEPT ![p] =
                IF r.some
                THEN [@ EXCEPT !.pc = "chat", !.end = r.end,
                         !.conversation = Conversation(OldMsgs(bg[p].snap, r.end)),
                         !.currentMemory = memoryDoc]
                ELSE Returned(@)]
    /\ UNCHANGED <<triggerVars, store, cron, cfg, backend, rl, files, pm, sess, memoryDoc, historyLog>>

\* Consolidate lines 114-164: the summariser answers b
BgSummaryWith(p, b) ==
    /\ bg[p].pc = "chat"
    /\ LET out == ApplyReply([memory |-> memoryDoc, history |-> historyLog],
                             bg[p].snap, bg[p].end, bg[p].currentMemory,
                             ParseReply(b))
       IN  /\ memoryDoc' = out.memory
           /\ historyLog' = out.history
           /\ bg' = [bg EXCEPT ![p] = Returned([@ EXCEPT !.snap = out.session,
                        !.covered = IF Len(out.history) > Len(historyLog)
                                    THEN <<bg[p].snap.LastConsolidated, bg[p].end>>
                                    ELSE <<>>])]
    /\ UNCHANGED <<triggerVars, store, cron, cfg, backend, rl, files, pm, sess>>

BgSummary(p) == \E b \in SummaryReplies : BgSummaryWith(p, b)

\* ProcessMessage line 110
BgWriteBack(p) ==
    /\ bg[p].pc = "writeback"
    /\ sess' = [sess EXCEPT ![p].LastConsolidated = bg[p].snap.LastConsolidated]
    /\ bg' = [bg EXCEPT ![p] = [@ EXCEPT !.pc = "save", !.snap = NoSession]]
    /\ UNCHANGED <<triggerVars, store, cron, cfg, backend, rl, files, pm, memoryDoc, historyLog>>

\* ProcessMessage line 111
BgSave(p) ==
    /\ bg[p].pc = "save"
    /\ files' = Save(files, sess[p])
    /\ bg' = [bg EXCEPT ![p] = EndedGoroutine(bg[p])]
    /\ UNCHANGED <<triggerVars, store, cron, cfg, backend, rl, pm, sess, memoryDoc, historyLog>>

Next ==
    \E p \in Calls :
       \/ \E key \in SessionKeys, text \in UserTexts : PMGet(p, key, text)
       \/ PMNew(p)
       \/ PMHelp(p)
       \/ PMWindow(p)
       \/ PMRunLoop(p)
       \/ PMAddUser(p)
       \/ PMAddAssistant(p)
       \/ PMSave(p)
       \/ BgSnapshot(p)
       \/ BgConsolidate(p)
       \/ BgSummary(p)
       \/ BgWriteBack(p)
       \/ BgSave(p)

Spec == Init /\ [][Next]_vars

\* the steps of the ProcessMessage call p itself, once it has the session
Foreground(p) ==
    \/ PMNew(p)
    \/ PMHelp(p)
    \/ PMWindow(p)
    \/ PMRunLoop(p)
    \/ PMAddUser(p)
    \/ PMAddAssistant(p)
    \/ PMSave(p)

\* every started call keeps running; nothing is assumed of the goroutines
SpecForeground == Spec /\ \A p \in Calls : WF_vars(Foreground(p))

-----------------------------------------------------------------------------
(* Specification of MemoryStore.Consolidate on its own: goroutine 1 runs it
   on a session, goroutine 2 runs it again on the session it left. *)

ConsolidateConfigs == [MaxIterations : {0}, MemoryWindow : 0..MaxWindow]

\* the sessions Consolidate may be handed
RECURSIVE Exchanges(_)
Exchanges(n) ==
    IF n = 0 THEN <<>>
    ELSE Append(Exchanges(n - 1),
                [Role |-> IF n % 2 = 1 THEN "user" ELSE "assistant",
                 Content |-> IF n % 2 = 1 THEN "hi" ELSE "done",
                 ToolsUsed |-> <<>>, Timestamp |-> n])

ConsolidateSessions ==
    {Session("tg:1", Exchanges(n), w) : n \in 0..MaxMessages, w \in 0..MaxMessages}

InitConsolidate ==
    /\ cfg \in ConsolidateConfigs
    /\ backend \in {[prefix |-> <<>>, tail |-> b] : b \in SummaryReplies}
    /\ rl = IdleFrame(<<>>)
    /\ files = [f \in Paths |-> NoFile]
    /\ pm = [p \in Calls |-> IdleCall]
    /\ sess = [p \in Calls |-> NoSession]
    /\ memoryDoc \in {"", "m1"}
    /\ historyLog = <<>>
    /\ store = IdleStore
    /\ sched = IdleSched
    /\ hb = IdleHeartbeat
    /\ route = IdleRoute
    /\ cron = IdleCron
    /\ \E s \in ConsolidateSessions, kind \in {"new", "window"} :
          /\ s.LastConsolidated <= Len(s.Messages)
          /\ bg = [p \in Calls |->
                     IF p = 1
                     THEN [NoGoroutine EXCEPT !.pc = "consolidate", !.kind = kind,
                              !.snap = s, !.memWindow = MemWindow(cfg)]
                     ELSE NoGoroutine]

\* Consolidate is called again on the session the first call returned
ConsolidateAgain ==
    /\ bg[1].pc = "writeback"
    /\ bg[2].pc = "none"
    /\ bg' = [bg EXCEPT ![2] = [bg[1] EXCEPT !.pc = "consolidate",
                                          !.covered = <<>>]]
    /\ UNCHANGED <<triggerVars, store, cron, cfg, backend, rl, files, pm, sess, memoryDoc, historyLog>>

NextConsolidate ==
    \/ \E p \in {1, 2} : BgConsolidate(p)
    \/ \E p \in {1, 2} : BgSummaryWith(p, backend.tail)
    \/ ConsolidateAgain

SpecConsolidate == InitConsolidate /\ [][NextConsolidate]_vars

-----------------------------------------------------------------------------
(* Properties of ProcessMessage and the consolidation *)

InRange(lastConsolidated, messages) ==
    0 <= lastConsolidated /\ lastConsolidated <= Len(messages)

\* C1: every session object (a call's session, a goroutine's copy) and every
\* persisted session file has 0 <= lastConsolidated <= len(messages).
C1_WatermarkInRange ==
    /\ \A p \in Calls :
          /\ InRange(sess[p].LastConsolidated, sess[p].Messages)
          /\ InRange(bg[p].snap.LastConsolidated, bg[p].snap.Messages)
    /\ \A f \in Paths : InRange(files[f].lastConsolidated, files[f].messages)

C1_Witness ==
    \E f \in Paths, p \in Calls :
       /\ files[f].lastConsolidated = 2
       /\ Len(files[f].messages) = 4
       /\ bg[p].pc = "done"
       /\ bg[p].kind = "window"

\* the texts ProcessMessage takes for /new or /help
CommandTexts == {"/new", " /New ", "/HELP"}

IsPrefix(a, b) == Len(a) <= Len(b) /\ SubSeq(b, 1, Len(a)) = a

\* a call returns without an error in this step
ReturnsReply(p) == pm[p].pc # "done" /\ pm'[p].pc = "done" /\ ~pm'[p].err

\* C2: when a call that is neither /new nor /help returns its reply, its
\* session holds the messages it loaded and exactly two more, the user
\* message and then the assistant's final text, and that is what it saved; a
\* /new or /help call adds no message.
C2_GrowthStep ==
    \A p \in Calls :
       /\ pm[p].pc \in {"run", "addUser", "addAssistant", "save"} =>
             IsPrefix(sess[p].Messages, sess'[p].Messages)
       /\ ReturnsReply(p) =>
             LET m == sess'[p].Messages
                 n == pm[p].loaded
             IN  IF pm[p].userMsg \in CommandTexts
                 THEN IsPrefix(m, sess[p].Messages)
                 ELSE /\ Len(m) = n + 2
                      /\ m[n + 1].Role = "user"
                      /\ m[n + 1].Content = pm[p].userMsg
                      /\ m[n + 2].Role = "assistant"
                      /\ m[n + 2].Content = pm'[p].reply
                      /\ Get(files', sess[p].Key).Messages = m

C2_GrowsByTwo == [][C2_GrowthStep]_vars

C2_Witness ==
    \E p \in Calls :
       /\ pm[p].pc = "done"
       /\ pm[p].reply = "done"
       /\ Len(sess[p].Messages) = 4
       /\ sess[p].Messages[4].ToolsUsed = <<"read_file", "exec", "no_such_tool">>
       /\ Get(files, sess[p].Key).Messages = sess[p].Messages

\* the backend's k-th answer in a runLoop is a failure, the earlier ones
\* asked for tools
BackendFailsAt(script, k) ==
    /\ BehaviourAt(script, k).err
    /\ \A j \in 1..(k - 1) : IsToolInvocation(BehaviourAt(script, j))

\* C5: when the backend fails in some iteration of a call's runLoop, the call
\* returns an error having made no backend call after the failed one, and the
\* foreground has not appended to the session nor saved it, and never does.
C5_FailureStep ==
    \A p \in Calls :
       /\ ( /\ pm[p].pc = "run"
            /\ pm'[p] # pm[p]
            /\ \E k \in 1..ConfiguredCap : BackendFailsAt(pm[p].script, k) ) =>
             /\ pm'[p].pc = "done"
             /\ pm'[p].err
             /\ pm'[p].reply = ""
             /\ BackendFailsAt(pm[p].script, pm'[p].chats)
             /\ sess'[p] = sess[p]
             /\ files' = files
       /\ (pm[p].pc = "done" /\ pm[p].err) =>
             /\ pm'[p] = pm[p]
             /\ sess'[p].Messages = sess[p].Messages
             /\ files' # files =>
                   \E q \in Calls : bg'[q] # bg[q] \/ (q # p /\ pm'[q] # pm[q])

C5_BackendFailureIsFatal == [][C5_FailureStep]_vars

C5_Witness ==
    \E p \in Calls :
       /\ pm[p].pc = "done"
       /\ pm[p].err
       /\ pm[p].chats = 2
       /\ sess[p].Messages = StoredExchange
       /\ Get(files, sess[p].Key).Messages = StoredExchange

\* a step of a call that is the /new command saving the cleared session
NewCommandStep ==
    \E p \in Calls :
       /\ pm[p].pc = "switch"
       /\ pm[p].userMsg \in {"/new", " /New "}
       /\ pm'[p].pc = "done"

\* C10: the persisted lastConsolidated of a session never decreases, except
\* when /new resets it.
C10_PersistedWatermarkStep ==
    \A f \in Paths :
       files'[f].lastConsolidated < files[f].lastConsolidated => NewCommandStep

C10_PersistedWatermarkNeverDecreases == [][C10_PersistedWatermarkStep]_vars

-----------------------------------------------------------------------------
(* Properties of Consolidate *)

\* nothing below the keep threshold is left to consolidate
NothingToConsolidate(s, memWindow) ==
    Len(s.Messages) - (memWindow \div 2) <= s.LastConsolidated

\* C8: Consolidate on a session with nothing left below the keep threshold
\* calls no backend, appends no history, writes no memory and leaves the
\* watermark; a successful Consolidate leaves such a session, so running it
\* again is a no-op.
C8_NoopStep ==
    \A p \in Calls :
       /\ ( /\ bg[p].pc = "consolidate"
            /\ bg'[p] # bg[p]
            /\ NothingToConsolidate(bg[p].snap, bg[p].memWindow) ) =>
             /\ bg'[p].pc # "chat"
             /\ memoryDoc' = memoryDoc
             /\ historyLog' = historyLog
             /\ bg[p].kind = "window" => bg'[p].snap = bg[p].snap
       /\ ( /\ bg[p].pc = "chat"
            /\ bg'[p].pc = "writeback"
            /\ bg'[p].snap.LastConsolidated # bg[p].snap.LastConsolidated ) =>
             NothingToConsolidate(bg'[p].snap, bg'[p].memWindow)
       /\ ( /\ p = 2
            /\ bg[2].pc = "consolidate"
            /\ bg'[2] # bg[2]
            /\ backend.tail \in {ReplyJson, ReplyFenced, ReplyNull} ) =>
             /\ bg'[2].pc = "writeback"
             /\ bg'[2].snap = bg[2].snap
             /\ memoryDoc' = memoryDoc
             /\ historyLog' = historyLog

C8_EmptyRangeIsNoop == [][C8_NoopStep]_vars

C8_Witness ==
    /\ bg[1].pc = "writeback"
    /\ bg[2].pc = "writeback"
    /\ bg[2].snap.LastConsolidated = 3
    /\ Len(bg[2].snap.Messages) = 4
    /\ historyLog = <<"h1">>

\* the replies Consolidate cannot use: a backend failure, no text, and text
\* that is not the two-field JSON object
UnusableReplies ==
    {ChatError, ReplyNoText, ReplyBlank, ReplyJunk, ReplyArray, ReplyOneLineFence}

\* C9: on a failed backend call, or a reply that is empty or does not parse,
\* Consolidate appends no history, writes no memory, leaves the watermark and
\* returns normally, so the next Consolidate starts from the same watermark.
C9_FailedStep ==
    \A p \in Calls :
       ( /\ bg[p].pc = "chat"
         /\ bg'[p] # bg[p]
         /\ backend.tail \in UnusableReplies ) =>
          /\ memoryDoc' = memoryDoc
          /\ historyLog' = historyLog
          /\ bg[p].kind = "window" =>
                /\ bg'[p].pc = "writeback"
                /\ bg'[p].snap = bg[p].snap
          /\ bg[p].kind = "new" => bg'[p].pc = "done"

C9_FailedConsolidationChangesNothing == [][C9_FailedStep]_vars

C9_Witness ==
    /\ backend.tail = ReplyOneLineFence
    /\ bg[1].pc = "writeback"
    /\ bg[2].pc = "chat"
    /\ bg[2].end = 2
    /\ bg[2].snap.LastConsolidated = 0
    /\ historyLog = <<>>
    /\ memoryDoc = ""

-----------------------------------------------------------------------------
(* Properties of the background consolidation *)

\* C11: every ProcessMessage call that has started, /new included, returns,
\* whether or not the consolidation goroutines ever take another step.
C11_ForegroundReturns ==
    \A p \in Calls : (pm[p].pc \notin {"idle", "done"}) ~> (pm[p].pc = "done")

C11_Witness ==
    \E p, q \in Calls :
       /\ pm[p].pc = "done"
       /\ pm[p].reply = "done"
       /\ bg[p].kind = "window"
       /\ bg[p].pc = "chat"
       /\ pm[q].pc = "done"
       /\ pm[q].reply = NewReply
       /\ bg[q].kind = "new"
       /\ bg[q].pc = "chat"

\* the consolidation goroutine of call p is launched in this step
Launches(p) == bg[p].pc = "none" /\ bg'[p].pc # "none"

\* the messages of a session not yet consolidated
Unconsolidated(s) == Len(s.Messages) - s.LastConsolidated

\* C12: a call that is not a command launches a consolidation exactly when
\* len(messages) - lastConsolidated of its session exceeds the memory window.
C12_LaunchStep ==
    \A p \in Calls :
       (pm[p].pc = "switch" /\ pm'[p].pc = "run") =>
          (Launches(p) <=> Unconsolidated(sess[p]) > MemWindow(cfg))

C12_LaunchesOnUnconsolidatedCount == [][C12_LaunchStep]_vars

\* a session file /new has cleared
Cleared(file) ==
    file.exists /\ file.messages = <<>> /\ file.lastConsolidated = 0

\* C13: once /new has saved the cleared session, the persisted session stays
\* without messages and with lastConsolidated = 0 until a ProcessMessage call
\* saves what it appended; no goroutine writes it.
C13_ClearedStep ==
    \A f \in Paths :
       (Cleared(files[f]) /\ files'[f] # files[f]) =>
          \E p \in Calls : pm[p].pc = "save" /\ pm'[p].pc = "done"

C13_NewClearsPersistedSession == [][C13_ClearedStep]_vars

\* C14: the consolidation /new launches hands the summariser every discarded
\* message from lastConsolidated on: if there is one, the backend is called
\* with the range that ends at the last discarded message.
C14_DiscardedStep ==
    \A p \in Calls :
       ( /\ bg[p].kind = "new"
         /\ bg[p].pc = "consolidate"
         /\ bg'[p] # bg[p]
         /\ Unconsolidated(bg[p].snap) > 0 ) =>
          /\ bg'[p].pc = "chat"
          /\ bg'[p].end = Len(bg[p].snap.Messages)

C14_NewConsolidatesAllDiscarded == [][C14_DiscardedStep]_vars

-----------------------------------------------------------------------------
(* Specification of the SessionManager alone: Save and Get on several keys *)

\* keys as the callers build them: a channel prefix and a chat id
StoreKeys == {"tg:1", "tg_1", "hb:1"}

StorePaths == {Path(k) : k \in StoreKeys}

\* an exchange in which the assistant used tools
ToolExchange ==
    <<[Role |-> "user", Content |-> "hi", ToolsUsed |-> <<>>, Timestamp |-> 0],
      [Role |-> "assistant", Content |-> "done",
       ToolsUsed |-> <<"read_file", "exec">>, Timestamp |-> 0]>>

\* the sessions a caller saves under a key
StoreSessions(key) ==
    {Session(key, m, w) :
        m \in {<<>>, StoredExchange, ToolExchange, StoredExchange \o ToolExchange},
        w \in {0, 2}} \ {Session(key, <<>>, 2)}

InitStore ==
    /\ cfg = [MaxIterations |-> 0, MemoryWindow |-> 0]
    /\ backend = IdleScript
    /\ rl = IdleFrame(<<>>)
    /\ files = [f \in StorePaths |-> NoFile]
    /\ pm = [p \in Calls |-> IdleCall]
    /\ sess = [p \in Calls |-> NoSession]
    /\ bg = [p \in Calls |-> NoGoroutine]
    /\ memoryDoc = ""
    /\ historyLog = <<>>
    /\ store = IdleStore
    /\ sched = IdleSched
    /\ hb = IdleHeartbeat
    /\ route = IdleRoute
    /\ cron = IdleCron

\* SessionManager.Save(s)
StoreSave(key, s) ==
    /\ s.Key = key
    /\ files' = Save(files, s)
    /\ store' = [op |-> "save", key |-> key, session |-> s]
    /\ UNCHANGED <<triggerVars, cron, cfg, backend, rl, pm, sess, bg, memoryDoc, historyLog>>

\* SessionManager.Get(key)
StoreGet(key) ==
    /\ store' = [op |-> "get", key |-> key, session |-> Get(files, key)]
    /\ UNCHANGED <<triggerVars, cron, cfg, backend, rl, files, pm, sess, bg, memoryDoc, historyLog>>

NextStore ==
    \E key \in StoreKeys :
       \/ \E s \in StoreSessions(key) : StoreSave(key, s)
       \/ StoreGet(key)

SpecStore == InitStore /\ [][NextStore]_vars

\* roles, contents and tool names of a message sequence, in order
Told(messages) ==
    [k \in DOMAIN messages |->
        <<messages[k].Role, messages[k].Content, messages[k].ToolsUsed>>]

\* C15: right after a session is saved, loading it by the same key yields the
\* same messages (roles, contents, tool names, order) and lastConsolidated;
\* and a load returns what the directory holds for the key.
C15_RoundTripStep ==
    /\ store'.op = "save" =>
          LET loaded == Get(files', store'.key) IN
          /\ Told(loaded.Messages) = Told(store'.session.Messages)
          /\ loaded.LastConsolidated = store'.session.LastConsolidated
          /\ loaded.Key = store'.key
    /\ (store.op = "save" /\ store'.op = "get" /\ store'.key = store.key) =>
          /\ Told(store'.session.Messages) = Told(store.session.Messages)
          /\ store'.session.LastConsolidated = store.session.LastConsolidated

C15_SaveThenLoad == [][C15_RoundTripStep]_vars

C15_Witness ==
    /\ store.op = "get"
    /\ store.key = "hb:1"
    /\ store.session = Session("hb:1", StoredExchange \o ToolExchange, 2)

\* C16: saving the session of one key never changes what loading another key
\* returns.
C16_OtherKeysStep ==
    store'.op = "save" =>
       \A other \in StoreKeys \ {store'.key} :
          Get(files', other) = Get(files, other)

C16_KeysHaveOwnFiles == [][C16_OtherKeysStep]_vars

-----------------------------------------------------------------------------
(* Specification of the cron Service: Start, Add, Remove and List, each under
   the Service's mutex *)

JobNames == {"daily", "hourly"}

InitCron ==
    /\ cfg = [MaxIterations |-> 0, MemoryWindow |-> 0]
    /\ backend = IdleScript
    /\ rl = IdleFrame(<<>>)
    /\ files = [f \in Paths |-> NoFile]
    /\ pm = [p \in Calls |-> IdleCall]
    /\ sess = [p \in Calls |-> NoSession]
    /\ bg = [p \in Calls |-> NoGoroutine]
    /\ memoryDoc = ""
    /\ historyLog = <<>>
    /\ store = IdleStore
    /\ sched = IdleSched
    /\ hb = IdleHeartbeat
    /\ route = IdleRoute
    /\ cron \in {NewService(file, 2) : file \in StoredJobFiles}

CronStart ==
    /\ cron.starts < MaxStarts
    /\ cron' = StartService(cron)
    /\ UNCHANGED <<triggerVars, store, cfg, backend, rl, sessionVars>>

\* Add reads the wall clock (line 81): a reading is not before the last one,
\* and equals it when the clock has not ticked since
CronAdd(name, schedule, message, chatID) ==
    /\ cron.next < MaxEntries
    /\ \E now \in {cron.clock, cron.clock + 1} :
          /\ now <= MaxClock
          /\ cron' = AddJob(cron, name, schedule, message, chatID, now)
    /\ UNCHANGED <<triggerVars, store, cfg, backend, rl, sessionVars>>

CronRemove(id) ==
    /\ cron' = RemoveJob(cron, id)
    /\ UNCHANGED <<triggerVars, store, cfg, backend, rl, sessionVars>>

CronList ==
    /\ \E slice \in ListSlices(cron) :
          cron' = [cron EXCEPT !.ret = [NoReturn EXCEPT !.op = "list",
                      !.jobs = List(cron), !.text = ListFormatted(cron),
                      !.slice = slice]]
    /\ UNCHANGED <<triggerVars, store, cfg, backend, rl, sessionVars>>

NextCron ==
    \/ CronStart
    \/ \E name \in JobNames, schedule \in Schedules :
          CronAdd(name, schedule, "ping", "123")
    \/ \E id \in 0..MaxClock : CronRemove(id)
    \/ CronList

SpecCron == InitCron /\ [][NextCron]_vars

\* the live schedule handles of a job: its entries in the scheduler
Handles(id) == {e \in cron.entries : e.job = id}

\* C17: once the scheduler has been started, every enabled job of the
\* collection has exactly one live schedule handle, and every live handle
\* belongs to an enabled job of the collection.
C17_OneHandlePerEnabledJob ==
    cron.running =>
       /\ \A id \in DOMAIN cron.jobs :
             cron.jobs[id].Enabled => Cardinality(Handles(id)) = 1
       /\ \A e \in cron.entries :
             e.job \in DOMAIN cron.jobs /\ cron.jobs[e.job].Enabled

\* what Add, Remove and Start may change of the Service, besides the result
ServiceState(st) == <<st.jobs, st.entryIDs, st.entries, st.next, st.file>>

\* this step is a call of op
Calling(op) == cron' # cron /\ cron'.ret.op = op

\* C18: Add with a schedule expression the parser rejects returns an error,
\* and the jobs, the handles, the scheduler's entries and the job file are as
\* before.
C18_InvalidAddStep ==
    (Calling("add") /\ ParseSchedule(cron'.ret.schedule) # "") =>
       /\ cron'.ret.err # ""
       /\ ServiceState(cron') = ServiceState(cron)

C19_ListStep ==
    /\ \A j \in List(cron) : j.Enabled
    /\ Calling("list") =>
          /\ cron'.ret.jobs = List(cron)
          /\ cron'.ret.text =
                {[ID |-> j.ID, Name |-> j.Name, Schedule |-> j.Schedule,
                  status |-> "enabled", Message |-> j.Message] : j \in List(cron)}
    /\ (Calling("add") /\ cron'.ret.err = "") =>
          \E j \in List(cron') :
             /\ j \notin List(cron)
             /\ j.ID = cron'.ret.id
             /\ j.ID \notin {x.ID : x \in List(cron)}
             /\ j.Name = cron'.ret.name
             /\ j.Schedule = cron'.ret.schedule
             /\ j.Message = cron'.ret.message
             /\ j.ChatID = cron'.ret.chatID
             /\ j.Enabled
             /\ List(cron') = List(cron) \cup {j}
    /\ (Calling("remove") /\ cron'.ret.err = "") =>
          List(cron') = {j \in List(cron) : j.ID # cron'.ret.id}
    /\ ( \/ Calling("start")
         \/ Calling("list")
         \/ (Calling("add") /\ cron'.ret.err # "")
         \/ (Calling("remove") /\ cron'.ret.err # "") ) =>
          List(cron') = List(cron)

C19_ListShowsAddedNotRemoved == [][C19_ListStep]_vars

\* C21: a successful Add stores its job under an identifier no job of the
\* collection has: the collection grows by exactly one job and every job it
\* held is still there, unchanged.
C21_UniqueIdStep ==
    (Calling("add") /\ cron'.ret.err = "") =>
       /\ cron'.ret.id \notin DOMAIN cron.jobs
       /\ Cardinality(DOMAIN cron'.jobs) = Cardinality(DOMAIN cron.jobs) + 1
       /\ \A id \in DOMAIN cron.jobs :
             id \in DOMAIN cron'.jobs /\ cron'.jobs[id] = cron.jobs[id]

C21_AddAssignsFreshId == [][C21_UniqueIdStep]_vars

\* C20: Remove of an id that is not in the collection returns a not-found
\* error, and the jobs, the handles, the scheduler's entries and the job file
\* are as before.
C20_UnknownRemoveStep ==
    \A id \in 0..MaxClock :
       (Calling("remove") /\ cron'.ret.id = id /\ id \notin DOMAIN cron.jobs) =>
          /\ cron'.ret.err = "not found"
          /\ ServiceState(cron') = ServiceState(cron)

C20_UnknownRemoveChangesNothing == [][C20_UnknownRemoveStep]_vars

C20_Witness ==
    /\ cron.ret.op = "remove"
    /\ cron.ret.err = "not found"
    /\ cron.ret.id = 2
    /\ DOMAIN cron.jobs = {3}
    /\ cron.entries # {}
    /\ cron.file.jobs = List(cron)

-----------------------------------------------------------------------------
(* Specification of the cron Service among its goroutines: callers of Start,
   Stop, Add, Remove and List, and the firings the scheduler starts *)

\* the calls a goroutine makes
SchedCalls ==
    {[IdleCaller EXCEPT !.op = "start"], [IdleCaller EXCEPT !.op = "list"]}
    \cup {[IdleCaller EXCEPT !.op = "add", !.name = "daily",
                               !.schedule = "@daily"]}
    \cup {[IdleCaller EXCEPT !.op = "remove", !.id = id] : id \in {1, MaxClock}}

InitSched ==
    /\ cfg = [MaxIterations |-> 0, MemoryWindow |-> 0]
    /\ backend = IdleScript
    /\ rl = IdleFrame(<<>>)
    /\ files = [f \in Paths |-> NoFile]
    /\ pm = [p \in Calls |-> IdleCall]
    /\ sess = [p \in Calls |-> NoSession]
    /\ bg = [p \in Calls |-> NoGoroutine]
    /\ memoryDoc = ""
    /\ historyLog = <<>>
    /\ store = IdleStore
    /\ cron \in {NewService(file, 2) : file \in StoredJobFiles}
    /\ sched = IdleSched
    /\ hb = IdleHeartbeat
    /\ route = IdleRoute

\* a goroutine calls Start, Add, Remove or List: s.mu.Lock()
SchedLock(t, call) ==
    /\ sched.th[t].pc = "idle"
    /\ call.op = "start" => cron.starts < MaxStarts
    /\ call.op = "add" => cron.next < MaxEntries /\ cron.clock <= MaxClock
    /\ sched' \in Lock(sched, t, call)
    /\ UNCHANGED <<cron, hb, route, store, cfg, backend, rl, sessionVars>>

\* the body of the call, between Lock and Unlock
SchedBody(t) ==
    /\ sched.th[t].pc = "body"
    /\ LET call == sched.th[t] IN
       CASE call.op = "start" -> cron' = StartService(cron)
         [] call.op = "add" ->
               \E now \in {cron.clock, cron.clock + 1} :
                  /\ now <= MaxClock
                  /\ cron' = AddJob(cron, call.name, call.schedule, "ping",
                                    "123", now)
         [] call.op = "remove" -> cron' = RemoveJob(cron, call.id)
         [] call.op = "list" ->
               \E slice \in ListSlices(cron) :
                  cron' = [cron EXCEPT !.ret = [NoReturn EXCEPT !.op = "list",
                             !.jobs = List(cron), !.text = ListFormatted(cron),
                             !.slice = slice]]
    /\ sched' = [sched EXCEPT !.th[t].pc = "unlock"]
    /\ UNCHANGED <<hb, route, store, cfg, backend, rl, sessionVars>>

\* the deferred Unlock, and the return
SchedUnlock(t) ==
    /\ sched.th[t].pc = "unlock"
    /\ sched' = Unlock(sched, t)
    /\ UNCHANGED <<cron, hb, route, store, cfg, backend, rl, sessionVars>>

\* Service.Stop: the scheduler is stopped, without the mutex
SchedStop(t) ==
    /\ sched.th[t].pc = "idle"
    /\ cron.running
    /\ cron' = [cron EXCEPT !.running = FALSE,
                            !.ret = [NoReturn EXCEPT !.op = "stop"]]
    /\ UNCHANGED <<triggerVars, store, cfg, backend, rl, sessionVars>>

\* the running scheduler starts the closure of entry e in a goroutine
FireStart(f, e) ==
    /\ cron.running
    /\ e \in cron.entries
    /\ sched.fire[f].pc = "idle"
    /\ Len(sched.agentCalls) < MaxFirings
    /\ sched' \in Firing(sched, f, e)
    /\ UNCHANGED <<cron, hb, route, store, cfg, backend, rl, sessionVars>>

\* s.agentFn returns
FireAgentReturn(f, o) ==
    /\ sched.fire[f].pc = "agent"
    /\ sched' = [sched EXCEPT !.fire[f] = [@ EXCEPT !.pc = "got",
                                  !.result = o.result, !.err = o.err]]
    /\ UNCHANGED <<cron, hb, route, store, cfg, backend, rl, sessionVars>>

\* the rest of the closure, lines 162-171, and its return
FireDeliver(f) ==
    /\ sched.fire[f].pc = "got"
    /\ sched' = [sched EXCEPT
                   !.sent = @ \o Delivered(sched.send, sched.fire[f]),
                   !.fire[f] = IdleFiring]
    /\ UNCHANGED <<cron, hb, route, store, cfg, backend, rl, sessionVars>>

NextSched ==
    \/ \E t \in Callers, call \in SchedCalls : SchedLock(t, call)
    \/ \E t \in Callers : SchedBody(t)
    \/ \E t \in Callers : SchedUnlock(t)
    \/ \E t \in Callers : SchedStop(t)
    \/ \E f \in Flights, e \in cron.entries : FireStart(f, e)
    \/ \E f \in Flights, o \in AgentOutcomes : FireAgentReturn(f, o)
    \/ \E f \in Flights : FireDeliver(f)

SpecSched == InitSched /\ [][NextSched]_vars

\* the callers between Lock and Unlock
InCriticalSection == {t \in Callers : sched.th[t].pc \in {"body", "unlock"}}

\* C22: Start, Add, Remove and List never overlap: at most one caller is
\* between its Lock and its Unlock, and the jobs, the handles, the scheduler's
\* entries and the job file change only in a step of that caller; Stop
\* touches none of them.
C22_ExclusionStep ==
    /\ Cardinality(InCriticalSection) <= 1
    /\ \A t \in InCriticalSection : sched.mu = t
    /\ ServiceState(cron') # ServiceState(cron) =>
          /\ sched.mu \in Callers
          /\ sched.th[sched.mu].pc = "body"
          /\ sched'.th[sched.mu].pc = "unlock"
    /\ Calling("stop") => ServiceState(cron') = ServiceState(cron)

C22_CallsAreMutuallyExclusive == [][C22_ExclusionStep]_vars

\* an Add waits for the mutex while a Remove is between Lock and Unlock and
\* has changed the collection
C22_Witness ==
    /\ sched.mu = 1
    /\ sched.th[1].op = "remove"
    /\ sched.th[1].pc = "unlock"
    /\ cron.ret.op = "remove"
    /\ cron.ret.err = ""
    /\ sched.th[2].pc = "idle"
    /\ Lock(sched, 2, [IdleCaller EXCEPT !.op = "list"]) = {}

\* C23: a firing calls the agent once, with the message and the recipient of
\* its job; when the agent has returned it sends to that recipient the reply
\* if the call succeeded with a non-empty reply, the prefixed error notice if
\* the call failed, and nothing if the reply is empty; the Service and its
\* callers are left as they were, and the firing ends without the error.
C23_FiringStep ==
    \A f \in Flights :
       /\ (sched.fire[f].pc = "idle" /\ sched'.fire[f].pc = "agent") =>
             \E e \in cron.entries :
                /\ sched'.fire[f].job = e.job
                /\ sched'.agentCalls =
                      Append(sched.agentCalls,
                             [chatID |-> e.chatID, message |-> e.message])
                /\ sched'.sent = sched.sent
       /\ (sched.fire[f].pc = "agent" /\ sched'.fire[f].pc = "got") =>
             /\ sched'.agentCalls = sched.agentCalls
             /\ sched'.sent = sched.sent
       /\ (sched.fire[f].pc = "got" /\ sched'.fire[f].pc = "idle") =>
             /\ sched'.agentCalls = sched.agentCalls
             /\ sched'.sent = sched.sent \o
                   (CASE sched.fire[f].err # "" ->
                           <<[chatID |-> sched.fire[f].chatID,
                              text |-> "Cron job error: " \o sched.fire[f].err]>>
                      [] sched.fire[f].err = "" /\ sched.fire[f].result # "" ->
                           <<[chatID |-> sched.fire[f].chatID,
                              text |-> sched.fire[f].result]>>
                      [] OTHER -> <<>>)
             /\ cron' = cron
             /\ sched'.th = sched.th
             /\ sched'.fire[f] = IdleFiring

C23_FiringSendsAtMostOnce == [][C23_FiringStep]_vars

\* a firing is over: its agent call failed and the notice was sent
C23_Witness ==
    /\ Len(sched.agentCalls) = 1
    /\ \A f \in Flights : sched.fire[f].pc = "idle"
    /\ sched.sent = <<[chatID |-> "123", text |-> "Cron job error: boom"]>>

\* C24: a firing never holds the Service's mutex, neither while its agent
\* call is in flight nor after; a caller that finds no other caller in the
\* critical section takes the mutex at once.
C24_FiringHoldsNoLock ==
    /\ \A f \in Flights : sched.mu # FiringId(f)
    /\ \A t \in Callers :
          (sched.th[t].pc = "idle" /\ InCriticalSection = {}) =>
             \A call \in SchedCalls : Lock(sched, t, call) # {}

\* an Add took the mutex, stored its job and is about to return, all while
\* the agent call of one and the same firing is in flight
C24_Witness ==
    \E t \in Callers, f \in Flights :
       /\ sched.fire[f].pc = "agent"
       /\ sched.th[t].op = "add"
       /\ sched.th[t].pc = "unlock"
       /\ sched.th[t].flight = Len(sched.agentCalls)
       /\ sched.th[t].flight > 0
       /\ cron.ret.op = "add"
       /\ cron.ret.err = ""

-----------------------------------------------------------------------------
(* Specification of the heartbeat Service: ticks of its timer, one after the
   other, each reading HEARTBEAT.md and calling the agent *)

\* HEARTBEAT.md: missing, empty, blank, comments only, comments and
\* instructions, an instruction with a hash inside
HeartbeatDocuments ==
    {NoDocument,
     Document(<<>>),
     Document(<<" ", "\n", "\t">>),
     Document(<<"#", " ", "c">>),
     Document(<<" ", "#", "c", "\n", "\n", "\t", "#", "\r", "\n">>),
     Document(<<"#", "c", "\n", "d", "o", " ", "\n", " ", "#", "x">>),
     Document(<<" ", "d", "o", "\n", "#", "c", "\n", "g", "o">>),
     Document(<<"d", "o", " ", "#", "1">>)}

\* what s.agent may return: a reply, or an error of the backend, or the
\* 5-minute deadline
HeartbeatOutcomes ==
    {[result |-> r, err |-> ""] :
        r \in {"", " ", "ok", "HEARTBEAT_OK", " HEARTBEAT_OK\n", "heartbeat_ok",
               "Heartbeat_OK\n", "HEARTBEAT_OK ok"}}
    \cup {[result |-> "", err |-> e] : e \in {"boom", "context deadline exceeded"}}

InitHeartbeat ==
    /\ cfg = [MaxIterations |-> 0, MemoryWindow |-> 0]
    /\ backend = IdleScript
    /\ rl = IdleFrame(<<>>)
    /\ files = [f \in Paths |-> NoFile]
    /\ pm = [p \in Calls |-> IdleCall]
    /\ sess = [p \in Calls |-> NoSession]
    /\ bg = [p \in Calls |-> NoGoroutine]
    /\ memoryDoc = ""
    /\ historyLog = <<>>
    /\ store = IdleStore
    /\ cron = IdleCron
    /\ sched = IdleSched
    /\ hb \in {NewHeartbeat(doc, chatID) :
                  doc \in HeartbeatDocuments, chatID \in {"", "123"}}
    /\ route = IdleRoute

\* tick lines 58-75: the document is read; without instructions the tick is
\* over, otherwise the agent is called
HbTick ==
    /\ AtSelect(hb)
    /\ hb.ticks < MaxTicks
    /\ \E content \in {readHeartbeatFile(hb.doc)} :
          hb' = IF content = <<>>
                THEN [hb EXCEPT !.ticks = @ + 1]
                ELSE [hb EXCEPT
                        !.ticks = @ + 1,
                        !.pc = "agent",
                        !.content = content,
                        !.agentCalls =
                           Append(@, [sessionKey |-> HeartbeatSessionKey(hb.chatID),
                                      chatID |-> hb.chatID,
                                      message |-> content])]
    /\ UNCHANGED <<sched, route, store, cron, cfg, backend, rl, sessionVars>>

\* s.agent returns
HbAgentReturn(o) ==
    /\ hb.pc = "agent"
    /\ hb' = [hb EXCEPT !.pc = "got", !.result = o.result, !.err = o.err,
                         !.returns = @ + 1]
    /\ UNCHANGED <<sched, route, store, cron, cfg, backend, rl, sessionVars>>

\* tick lines 76-92: the rest of the tick, and its return
HbDeliver ==
    /\ hb.pc = "got"
    /\ hb' = [hb EXCEPT
                !.sent = @ \o HeartbeatDelivered(hb.send, hb.chatID,
                                                 hb.result, hb.err),
                !.pc = "idle", !.content = <<>>, !.result = "", !.err = ""]
    /\ UNCHANGED <<sched, route, store, cron, cfg, backend, rl, sessionVars>>

\* whoever holds Run's context cancels it
HbCancel ==
    /\ ~hb.ctxDone
    /\ hb' = [hb EXCEPT !.ctxDone = TRUE]
    /\ UNCHANGED <<sched, route, store, cron, cfg, backend, rl, sessionVars>>

\* Run lines 49-50: the select takes ctx.Done and Run returns. When a tick is
\* due as well, the select may take either case
HbReturn ==
    /\ AtSelect(hb)
    /\ hb.ctxDone
    /\ hb' = [hb EXCEPT !.run = "returned"]
    /\ UNCHANGED <<sched, route, store, cron, cfg, backend, rl, sessionVars>>

NextHeartbeat ==
    \/ HbTick
    \/ \E o \in HeartbeatOutcomes : HbAgentReturn(o)
    \/ HbDeliver
    \/ HbCancel
    \/ HbReturn

SpecHeartbeat == InitHeartbeat /\ [][NextHeartbeat]_vars

\* position i of a text lies in a line whose first character that is not
\* white space is a hash at position j
CommentedAt(data, i, j) ==
    /\ j <= i
    /\ data[j] = "#"
    /\ \A k \in j..i : data[k] # "\n"
    /\ \A k \in 1..(j - 1) :
          (\A m \in k..j : data[m] # "\n") => IsSpace(data[k])

\* the document is missing, or each of its lines is blank or a comment
WithoutInstructions(doc) ==
    \/ ~doc.exists
    \/ \A i \in DOMAIN doc.data :
          ~IsSpace(doc.data[i]) => \E j \in 1..i : CommentedAt(doc.data, i, j)

\* C25: a tick that finds the instructions document missing, empty, or made
\* of blank and comment lines only calls neither the agent nor the send
\* function, and is over.
C25_SkipStep ==
    (hb'.ticks = hb.ticks + 1 /\ WithoutInstructions(hb.doc)) =>
       /\ hb'.agentCalls = hb.agentCalls
       /\ hb'.sent = hb.sent
       /\ hb'.pc = "idle"

C25_NoInstructionsNoInvocation == [][C25_SkipStep]_vars

\* both ticks found only comments and blank lines, the first comment indented
C25_Witness ==
    /\ hb.ticks = 2
    /\ hb.doc = Document(<<" ", "#", "c", "\n", "\n", "\t", "#", "\r", "\n">>)
    /\ hb.agentCalls = <<>>
    /\ hb.sent = <<>>
    /\ hb.pc = "idle"

\* the reply is the sentinel token, letter case and surrounding white space
\* ignored
IsSentinel(result) ==
    ToLower(TrimSpace(Chars(result))) = ToLower(Chars("HEARTBEAT_OK"))

\* this step is the end of a tick whose agent call has returned
TickEnds == hb.pc = "got" /\ hb'.pc = "idle"

\* C26: a reply that is empty, or that is HEARTBEAT_OK when letter case and
\* surrounding white space are ignored, is suppressed: the tick ends without
\* a call of the send function.
C26_SuppressStep ==
    (TickEnds /\ hb.err = "" /\ (hb.result = "" \/ IsSentinel(hb.result))) =>
       hb'.sent = hb.sent

C26_SentinelIsSuppressed == [][C26_SuppressStep]_vars

\* C27 as stated: every reply that is not empty and not the sentinel token is
\* sent exactly once.
C27_DeliverStep ==
    (TickEnds /\ hb.err = "" /\ hb.result # "" /\ ~IsSentinel(hb.result)) =>
       hb'.sent = Append(hb.sent, [chatID |-> hb.chatID, text |-> hb.result])

C27_ReplyIsDelivered == [][C27_DeliverStep]_vars

\* C27, amended: when a recipient is configured, every reply that is not
\* empty and not the sentinel token is sent to it exactly once; without a
\* configured recipient the reply is sent to nobody.
C27_DeliverToRecipientStep ==
    (TickEnds /\ hb.err = "" /\ hb.result # "" /\ ~IsSentinel(hb.result)) =>
       hb'.sent = IF hb.chatID # ""
                  THEN Append(hb.sent, [chatID |-> hb.chatID, text |-> hb.result])
                  ELSE hb.sent

C27_ReplyIsDeliveredToRecipient == [][C27_DeliverToRecipientStep]_vars

\* two ticks, each with a reply to report, the second beginning with the
\* token: both were sent, once each, in order
C27_Witness ==
    /\ hb.chatID = "123"
    /\ hb.pc = "idle"
    /\ Len(hb.agentCalls) = 2
    /\ hb.sent = <<[chatID |-> "123", text |-> "ok"],
                   [chatID |-> "123", text |-> "HEARTBEAT_OK ok"]>>

\* C28: when the agent call of a tick fails, with a backend error or with the
\* deadline, the tick ends without a second call of the agent and with an
\* error notice sent through the send function (stated for a heartbeat that
\* has a recipient to send to).
C28_FailureStep ==
    (TickEnds /\ hb.err # "" /\ hb.chatID # "") =>
       /\ hb'.agentCalls = hb.agentCalls
       /\ Len(hb'.sent) = Len(hb.sent) + 1

C28_FailureIsSurfaced == [][C28_FailureStep]_vars

\* C29: from the step in which a ProcessMessage call has loaded its session
\* to its return, no goroutine other than the call reads or writes that
\* Session object: the consolidation goroutine neither copies it (line 108),
\* nor writes its watermark (line 110), nor saves it (line 111) meanwhile.
C29_OwnershipStep ==
    \A p \in Calls :
       (pm[p].pc \notin {"idle", "done"} /\ bg[p].pc \in {"spawned", "writeback", "save"})
          => bg'[p] = bg[p]

C29_CallOwnsItsSession == [][C29_OwnershipStep]_vars

-----------------------------------------------------------------------------
(* Specification of tool routing: ProcessMessage calls on one Loop, each
   setting Loop.currentChatID and then running tools that read it *)

ChatIDs == {"123", "456"}

InitRoute ==
    /\ cfg = [MaxIterations |-> 0, MemoryWindow |-> 0]
    /\ backend = IdleScript
    /\ rl = IdleFrame(<<>>)
    /\ files = [f \in Paths |-> NoFile]
    /\ pm = [p \in Calls |-> IdleCall]
    /\ sess = [p \in Calls |-> NoSession]
    /\ bg = [p \in Calls |-> NoGoroutine]
    /\ memoryDoc = ""
    /\ historyLog = <<>>
    /\ store = IdleStore
    /\ cron = NewService(NoJobFile, 2)
    /\ sched = IdleSched
    /\ hb = IdleHeartbeat
    /\ route = IdleRoute

\* ProcessMessage line 89
RouteEnter(p, chatID) ==
    /\ route.call[p].pc = "idle"
    /\ route' = [route EXCEPT
                   !.currentChatID = chatID,
                   !.call[p] = [IdleRouted EXCEPT !.pc = "loop", !.chatID = chatID]]
    /\ UNCHANGED <<sched, hb, store, cron, cfg, backend, rl, sessionVars>>

\* runLoop executes send_message, with or without a chat_id argument
RouteSend(p, explicit) ==
    /\ route.call[p].pc = "loop"
    /\ Len(route.sent) < MaxSends
    /\ LET to == SendMessageChat(explicit, route.currentChatID) IN
       route' = [route EXCEPT
                   !.sent = IF to.err = ""
                            THEN Append(@, [chatID |-> to.chatID, text |-> "note"])
                            ELSE @,
                   !.call[p].routed = IF explicit = ""
                                      THEN @ \cup {route.currentChatID}
                                      ELSE @]
    /\ UNCHANGED <<sched, hb, store, cron, cfg, backend, rl, sessionVars>>

\* runLoop executes cron_add: the job is added for the current chat
RouteCronAdd(p) ==
    /\ route.call[p].pc = "loop"
    /\ cron.next < MaxEntries
    /\ \E now \in {cron.clock, cron.clock + 1} :
          /\ now <= MaxClock
          /\ cron' = AddJob(cron, "daily", "@daily", "ping",
                            CronAddChat(route.currentChatID), now)
    /\ route' = [route EXCEPT
                   !.call[p].routed = @ \cup {CronAddChat(route.currentChatID)}]
    /\ UNCHANGED <<sched, hb, store, cfg, backend, rl, sessionVars>>

\* ProcessMessage returns
RouteReturn(p) ==
    /\ route.call[p].pc = "loop"
    /\ route' = [route EXCEPT !.call[p] = IdleRouted]
    /\ UNCHANGED <<sched, hb, store, cron, cfg, backend, rl, sessionVars>>

NextRoute ==
    \/ \E p \in Calls, chatID \in ChatIDs : RouteEnter(p, chatID)
    \/ \E p \in Calls, explicit \in {"", "789"} : RouteSend(p, explicit)
    \/ \E p \in Calls : RouteCronAdd(p)
    \/ \E p \in Calls : RouteReturn(p)

SpecRoute == InitRoute /\ [][NextRoute]_vars

\* C30: send_message without a chat_id argument, and cron_add, executed in a
\* ProcessMessage call, route to the chatID that call was given, whatever
\* other calls run on the Loop.
C30_RoutesToOwnRecipient ==
    \A p \in Calls :
       route.call[p].pc = "loop" => route.call[p].routed \subseteq {route.call[p].chatID}


-----------------------------------------------------------------------------
(* The tools recorded with the stored answer *)

\* the names of the tool invocations a runLoop executes in its first n
\* backend calls: every tool_use block of every response that did not end
\* the loop, in order
RECURSIVE ExecutedNames(_, _)
ExecutedNames(script, n) ==
    IF n = 0 THEN <<>>
    ELSE LET b == BehaviourAt(script, n)
             uses == IF b.err THEN <<>> ELSE ToolUses(b.resp.Content)
         IN  ExecutedNames(script, n - 1) \o
             (IF b.err \/ b.resp.StopReason = "end_turn" THEN <<>>
              ELSE [k \in DOMAIN uses |-> uses[k].Name])

\* C31: the assistant message that a successful ProcessMessage stores is
\* tagged with exactly the names of the tool invocations executed during the
\* call, one per invocation in execution order, failed and unknown tools
\* included, and with none when no tool was executed; the tag survives the
\* save
C31_TaggedStep ==
    \A p \in Calls :
       /\ (pm[p].pc = "run" /\ pm'[p].pc = "addUser")
             => pm'[p].toolsUsed = ExecutedNames(pm[p].script, pm'[p].chats)
       /\ (pm[p].pc = "addAssistant" /\ pm'[p].pc = "save")
             => /\ Len(sess'[p].Messages) = Len(sess[p].Messages) + 1
                /\ LastMessage(sess'[p].Messages).Role = "assistant"
                /\ LastMessage(sess'[p].Messages).ToolsUsed = pm[p].toolsUsed
       /\ (pm[p].pc = "save" /\ pm'[p].pc = "done")
             => LastMessage(Get(files', pm[p].key).Messages).ToolsUsed
                   = pm[p].toolsUsed

C31_AnswerIsTaggedWithExecutedTools == [][C31_TaggedStep]_vars

\* a call has stored an answer tagged with a failed and with an unknown tool,
\* and another one an answer without tools
C31_Witness ==
    \E p, q \in Calls :
       /\ pm[p].pc = "done" /\ ~pm[p].err
       /\ pm[q].pc = "save"
       /\ Len(sess[p].Messages) > 0
       /\ LastMessage(sess[p].Messages).ToolsUsed =
             <<"read_file", "exec", "no_such_tool">>
       /\ LastMessage(sess[q].Messages).ToolsUsed = <<>>



-----------------------------------------------------------------------------
(* What a successful consolidation does *)

\* the goroutine p is about to get a reply that Consolidate accepts
Succeeds(p, b) == bg[p].pc = "chat" /\ ParseReply(b).ok

\* C32: a consolidation that succeeds on a session with n messages, watermark
\* w and keep count k = memWindow \div 2, where n - k > w, summarises exactly
\* the messages w .. n-k-1 (counted from 0), sets lastConsolidated to n - k,
\* and overwrites the memory document only when the returned memory_update is
\* not empty and differs from the current memory
C32_SuccessStep ==
    \A p \in Calls :
       LET s == bg[p].snap
           n == Len(s.Messages)
           w == s.LastConsolidated
           k == bg[p].memWindow \div 2
           update == ParseReply(backend.tail).MemoryUpdate
       IN  /\ (bg[p].pc = "consolidate" /\ n - k > w)
                => /\ bg'[p].pc = "chat"
                   /\ Len(bg'[p].conversation) = n - k - w
                   /\ \A i \in 1..(n - k - w) :
                         /\ bg'[p].conversation[i].Content = s.Messages[w + i].Content
                         /\ bg'[p].conversation[i].Role
                               = UpperRole(s.Messages[w + i].Role)
                         /\ bg'[p].conversation[i].Tools = s.Messages[w + i].ToolsUsed
                         /\ bg'[p].conversation[i].Timestamp
                               = s.Messages[w + i].Timestamp
           /\ (Succeeds(p, backend.tail) /\ bg'[p] # bg[p])
                => /\ n - k > w
                   /\ Len(bg[p].conversation) = n - k - w
                   /\ bg[p].kind = "window"
                         => bg'[p].snap.LastConsolidated = n - k
                   /\ memoryDoc' = IF update # "" /\ update # memoryDoc
                                   THEN update ELSE memoryDoc

C32_SuccessfulConsolidation == [][C32_SuccessStep]_vars

\* a consolidation has summarised the first two of four messages, kept the
\* latest two back, and replaced the memory document
C32_Witness ==
    /\ bg[1].pc = "writeback"
    /\ Len(bg[1].snap.Messages) = 4
    /\ bg[1].memWindow = 5
    /\ bg[1].snap.LastConsolidated = 2
    /\ memoryDoc = "m2"



-----------------------------------------------------------------------------
(* The order of a listing *)

\* C33: List returns all jobs of the collection sorted by creation time, for
\* every collection contents
C33_ListStep ==
    (Calling("list") /\ cron'.ret.op = "list") =>
       /\ {cron'.ret.slice[i] : i \in DOMAIN cron'.ret.slice} = Values(cron.jobs)
       /\ Len(cron'.ret.slice) = Cardinality(DOMAIN cron.jobs)
       /\ \A i, j \in DOMAIN cron'.ret.slice :
             i < j => cron'.ret.slice[i].Created <= cron'.ret.slice[j].Created

C33_ListIsSortedByCreation == [][C33_ListStep]_vars



-----------------------------------------------------------------------------
(* The watermark and the history log *)

\* C34: lastConsolidated advances past a range of messages only in a
\* consolidation that also appended a history-log entry for that range:
\* messages are never marked consolidated without a summary of them having
\* been recorded
C34_AdvanceStep ==
    \A p \in Calls :
       ( /\ bg[p].pc = "chat"
         /\ bg'[p].pc = "writeback"
         /\ bg'[p].snap.LastConsolidated > bg[p].snap.LastConsolidated )
       => /\ Len(historyLog') = Len(historyLog) + 1
          /\ historyLog'[Len(historyLog')] # ""

C34_AdvanceRecordsSummary == [][C34_AdvanceStep]_vars



\* the message indices, counted from 0, that the history-log entry of the
\* goroutine p summarises
Covered(p) ==
    IF bg[p].covered = <<>> THEN {}
    ELSE bg[p].covered[1] .. (bg[p].covered[2] - 1)

\* C35: no session message is summarised twice: under any interleaving of
\* ProcessMessage calls and background consolidations on one session key,
\* each message index is covered by at most one successful consolidation
C35_SummarisedOnce ==
    \A p, q \in Calls : p # q => Covered(p) \cap Covered(q) = {}



-----------------------------------------------------------------------------
(* The persisted exchange and the saves of earlier goroutines *)

\* the call q has answered a message and saved its exchange, and the session
\* file still holds what it saved
PersistedBy(q) ==
    /\ pm[q].pc = "done"
    /\ ~pm[q].err
    /\ pm[q].chats > 0
    /\ Get(files, sess[q].Key).Messages = sess[q].Messages

\* the messages of the session file begin with the messages given
FileBeginsWith(dir, key, messages) ==
    /\ Len(Get(dir, key).Messages) >= Len(messages)
    /\ SubSeq(Get(dir, key).Messages, 1, Len(messages)) = messages

\* C36: once a successful ProcessMessage has persisted an exchange, the
\* exchange stays in the persisted session until /new: no later save made by
\* a background consolidation that an earlier call launched removes it
C36_KeptStep ==
    \A p, q \in Calls :
       ( /\ p < q
         /\ bg[p].pc = "save"
         /\ bg'[p].pc = "done"
         /\ PersistedBy(q) )
       => FileBeginsWith(files', sess[q].Key, sess[q].Messages)

C36_PersistedExchangeIsKept == [][C36_KeptStep]_vars



-----------------------------------------------------------------------------
(* Concurrent updates of the memory document *)

\* C37: a memory-document update written by one consolidation is never lost
\* to another: a consolidation that overwrites the document does so from the
\* document as it is, not from a read made before another consolidation
\* wrote, so the final document reflects the updates of both
C37_WriteStep ==
    \A p \in Calls :
       (bg[p].pc = "chat" /\ bg'[p].pc # "chat" /\ memoryDoc' # memoryDoc)
          => bg[p].currentMemory = memoryDoc

C37_NoLostMemoryUpdate == [][C37_WriteStep]_vars



-----------------------------------------------------------------------------
(* Deliveries of a removed job *)

\* Remove(id) was the latest call of the Service, it succeeded, and it has
\* returned
RemoveHasReturned(id) ==
    /\ cron.ret.op = "remove"
    /\ cron.ret.err = ""
    /\ cron.ret.id = id
    /\ \A t \in Callers : sched.th[t].pc = "idle"

\* C38: after remove(id) has returned successfully, no message originating
\* from job id, neither a reply nor an error notice, is delivered through the
\* send channel any more, also when a firing of that job was in flight at the
\* time of the removal
C38_RemovedStep ==
    \A f \in Flights :
       (sched.fire[f].pc = "got" /\ RemoveHasReturned(sched.fire[f].job))
          => sched'.sent = sched.sent

C38_RemovedJobIsSilent == [][C38_RemovedStep]_vars



-----------------------------------------------------------------------------
(* One heartbeat at a time *)

\* the heartbeat-triggered agent invocations that have not returned yet
HeartbeatsInFlight(h) == Len(h.agentCalls) - h.returns

\* C39: heartbeat invocations never overlap: at most one heartbeat-triggered
\* agent invocation is in flight at any time, a tick runs to completion
\* before the next tick is taken, and the timer loop ends only once its
\* context is cancelled and the current tick has returned, after which no
\* tick is taken
C39_SerialStep ==
    /\ HeartbeatsInFlight(hb) <= 1
    /\ HeartbeatsInFlight(hb') <= 1
    /\ hb'.ticks > hb.ticks => HeartbeatsInFlight(hb) = 0 /\ hb.run = "loop"
    /\ (hb.run = "loop" /\ hb'.run = "returned")
          => hb.ctxDone /\ HeartbeatsInFlight(hb) = 0 /\ hb.pc = "idle"
    /\ hb.run = "returned" => hb' = hb

C39_HeartbeatsNeverOverlap == [][C39_SerialStep]_vars

\* the second tick's invocation is in flight, after the first one's reply was
\* delivered, and the context has been cancelled meanwhile
C39_Witness ==
    /\ hb.ticks = 2
    /\ Len(hb.agentCalls) = 2
    /\ hb.returns = 1
    /\ hb.ctxDone
    /\ Len(hb.sent) = 1



-----------------------------------------------------------------------------
(* The conversation of the first backend call *)

Min(a, b) == IF a < b THEN a ELSE b

\* C40: the conversation sent to the backend in the first call of a
\* ProcessMessage consists of the session's last min(len(messages),
\* memWindow) messages in order followed by the new user turn, and its roles
\* start with user and strictly alternate user/assistant, for every
\* memory-window value and every session length reachable by successful
\* calls
C40_ConversationStep ==
    \A p \in Calls :
       (pm[p].pc = "run" /\ pm'[p].pc = "addUser") =>
          LET msgs == sess[p].Messages
              n == Min(Len(msgs), pm[p].memWindow)
              sent == pm'[p].sent
          IN  /\ Len(sent) = n + 1
              /\ \A i \in 1..n :
                    /\ sent[i].Role = msgs[Len(msgs) - n + i].Role
                    /\ sent[i].Content = StrContent(msgs[Len(msgs) - n + i].Content)
              /\ sent[n + 1] = Message("user", StrContent(pm[p].userMsg))
              /\ sent[1].Role = "user"
              /\ \A i \in 1..n : sent[i].Role # sent[i + 1].Role

C40_ConversationAlternates == [][C40_ConversationStep]_vars


====
